---- MODULE Spec2Model ----
(***************************************************************************)
(* Kubrowser backend: the session registry (session.Manager), the          *)
(* WebSocket connection handler (api.Handlers.HandleWebSocket), the        *)
(* delete request (HandleDeleteSession), the cleanup service               *)
(* (cleanup.Cleaner) and the pod manager (k8s.PodManager) with the         *)
(* cluster it talks to.                                                    *)
(*                                                                         *)
(* Every goroutine is a process p with a program position pc[p].  m.mu is  *)
(* a sync.RWMutex: one writer or any number of readers, not reentrant.     *)
(*                                                                         *)
(* Three specifications share the definitions:                             *)
(*   SpecMgr  the Manager under arbitrary concurrent callers.  A call is   *)
(*            a frame call[p] and takes two steps: it acquires m.mu and    *)
(*            reads (st = "exit"); it writes, releases m.mu and returns.   *)
(*   SpecPod  the PodManager under arbitrary concurrent callers, with the  *)
(*            cluster.  Every call of the cluster API is a step.           *)
(*   Spec     the program: connections, a delete request, the Cleaner and  *)
(*            the cluster.  A registry call of the program is one step,    *)
(*            except CleanupStaleSessions, which holds m.mu over its loop. *)
(*   SpecFair Spec with weak fairness on the steps of the Cleaner.         *)
(***************************************************************************)
EXTENDS Integers, Sequences, FiniteSets, TLC

\* ---------------------------------------------------------------- bounds
NumCallers  == 2   \* goroutines calling the Manager API directly
NumHandlers == 2   \* goroutines serving HandleWebSocket connections, one after another
MaxSessions == 2   \* session ids uuid.New() hands out
MaxTime     == 1   \* readings of time.Now()
MaxTimeout  == 1   \* values of Manager.timeout

NoOne == 0
NoId  == 0

Callers    == 1..NumCallers
Handlers   == 101..(100 + NumHandlers)
Refreshers == 201..(200 + NumHandlers)   \* the LastUsed goroutine of handler p-100
CleanerP   == 301                        \* Cleaner.Start
CleanerQ   == 302                        \* a second Cleaner.Start, run beside the first
Cleaners   == {CleanerP, CleanerQ}
DeleterP   == 401                        \* HandleDeleteSession
Pingers    == 501..(500 + NumHandlers)   \* the ping/heartbeat goroutine of handler p-400
Readers    == 601..(600 + NumHandlers)   \* the goroutine copying stdin for handler p-500
Procs      == Callers \cup Handlers \cup Refreshers \cup Cleaners \cup {DeleterP}
                  \cup Pingers \cup Readers

SessionIds == 1..MaxSessions
Times      == 0..MaxTime

VARIABLES
    sessions,   \* Manager.sessions: id -> Session
    issued,     \* how many ids uuid.New() has handed out
    mu,         \* Manager.mu: [w |-> writer or NoOne, r |-> set of readers]
    hist,       \* history of the exec lock of every session, for the properties
    now,        \* time.Now()
    timeout,    \* Manager.timeout
    pc,         \* position of every goroutine
    call,       \* registry call frame of every goroutine
    rv,         \* value returned by the last registry call of every goroutine
    sw,         \* CleanupStaleSessions frame of every goroutine
    loc,        \* handler locals
    pods,       \* the cluster: pod name -> pod, for the pods that exist
    limitsOK,   \* PodManager.limits parse as quantities
    pm,         \* CreatePodWithStatus frame of every goroutine
    prev,       \* history: the call of CreatePodWithStatus a goroutine made just before
    ctxDone,    \* the goroutines whose governing context is cancelled (Done is closed)
    peer,       \* the client end of the WebSocket connection
    stdin,      \* the stdinStream of StreamTerminal, and what it has read and returned
    hbt,        \* the time an UpdatePodHeartbeat call in flight has read, per goroutine
    san         \* an argument of sanitizeUsername, and what the call returned

registry == <<sessions, issued, mu, hist>>
clock    == <<now, timeout>>
frames   == <<pc, call, rv, sw, loc>>
cluster  == <<pods, limitsOK, pm, prev>>
bridge   == <<ctxDone, peer, stdin, hbt>>
vars     == <<sessions, issued, mu, hist, now, timeout, pc, call, rv, sw, loc,
             pods, limitsOK, pm, prev, ctxDone, peer, stdin, hbt, san>>

\* ------------------------------------------------------------ the registry
NoPod == <<>>

\* Session struct, as CreateSession fills it.  ID is the key of the map;
\* CreatedAt, which is written here and never again, is left out.
Session(podName, userID, t) ==
    [PodName |-> podName, UserID |-> userID, LastUsed |-> t,
     Active |-> FALSE, ExecLock |-> FALSE]

\* A call frame: the method, its arguments (id, arg, pod, user), where it stands
\* (st) and what it has read so far: e = the id is in the map, b = ExecLock,
\* t = time.Now(); wm (history) = the side of m.mu held when it wrote a Session
\* field ("-" when it wrote none).
NoCall == [op |-> "none", id |-> NoId, arg |-> FALSE, pod |-> NoPod, user |-> NoPod,
           st |-> "none", e |-> FALSE, b |-> FALSE, t |-> 0, wm |-> "-"]
\* A return value: ok = the bool result, id = the session found or created,
\* existed / prior (history) = what the call saw when it acted.
NoRv   == [ok |-> FALSE, id |-> NoId, existed |-> FALSE, prior |-> "none"]
\* A CleanupStaleSessions frame: the ids still to visit, the deleted slice, now,
\* the predicate (pred, fn), the id the predicate is working on, and (history)
\* the map when the lock was taken.
NoSw   == [todo |-> {}, deleted |-> <<>>, nowS |-> 0, pred |-> "nil", fn |-> {},
           cur |-> NoId, snap |-> <<>>]

Exists(id) == id \in DOMAIN sessions

\* (mutant) TryLockExec takes the read side, as GetSession does.
LockMode_TryLockShared(op) ==
    IF op \in {"GetSession", "GetSessionByPodName", "TryLockExec"} THEN "R" ELSE "W"

\* Which side of m.mu each Manager method takes.
LockMode(op) ==
    IF op \in {"GetSession", "GetSessionByPodName"} THEN "R" ELSE "W"

\* sync.RWMutex
CanLock(p)  == mu.w = NoOne /\ mu.r = {}
CanRLock(p) == mu.w = NoOne
Acquire(p, mode) ==
    IF mode = "W" THEN [mu EXCEPT !.w = p] ELSE [mu EXCEPT !.r = @ \cup {p}]
Release(p) ==
    [w |-> IF mu.w = p THEN NoOne ELSE mu.w, r |-> mu.r \ {p}]
Held(p) == IF mu.w = p THEN "W" ELSE IF p \in mu.r THEN "R" ELSE "none"

\* ---- what each Manager method writes, as a function of what it read

\* CreateSession: m.sessions[session.ID] = session
CreateSessionEffect(id, podName, userID, t) ==
    (id :> Session(podName, userID, t)) @@ sessions

\* GetSession / GetSessionByPodName: session.LastUsed = time.Now()
TouchEffect(s, t) == [s EXCEPT !.LastUsed = t]

\* (mutant) SetActive(id, false) leaves ExecLock alone.
SetActiveEffect_KeepsLock(s, active, t) ==
    IF active
      THEN [s EXCEPT !.Active = TRUE, !.LastUsed = t]
      ELSE [s EXCEPT !.Active = FALSE]

\* (mutant) SetActive(id, false) leaves Active alone.
SetActiveEffect_KeepsActive(s, active, t) ==
    IF active
      THEN [s EXCEPT !.Active = TRUE, !.LastUsed = t]
      ELSE [s EXCEPT !.ExecLock = FALSE]

\* SetActive
SetActiveEffect(s, active, t) ==
    IF active
      THEN [s EXCEPT !.Active = TRUE, !.LastUsed = t]
      ELSE [s EXCEPT !.Active = FALSE, !.ExecLock = FALSE]

\* TryLockExec: the result, given that the id exists (e) and the ExecLock read (b)
TryLockResult(e, b) == e /\ ~b

\* UnlockExec
UnlockExecEffect(s) == [s EXCEPT !.ExecLock = FALSE]

\* DeleteSession: delete(m.sessions, sessionID)
Without(m, id) == [k \in DOMAIN m \ {id} |-> m[k]]

\* (mutant) the sweep does not look at Active.
SweepEligible_IgnoresActive(s, nowS) == nowS - s.LastUsed > timeout

\* CleanupStaleSessions: the test a session must pass before the predicate is asked
SweepEligible(s, nowS) == ~s.Active /\ nowS - s.LastUsed > timeout

Range(q) == {q[i] : i \in 1..Len(q)}

\* ---- history kept for the properties, per session id:
\*   lastLock: the last thing that happened to the exec lock of the session:
\*             "acquired", or "released" by UnlockExec or SetActive(id, false)
\*   held:     the lock was held when it was last released
\*   won:      TryLockExec calls that returned true since the lock was last free
\*             for certain (creation, UnlockExec, SetActive(false)), capped at 2
\*   tried:    some TryLockExec call on the session returned since then
NoHist == [id \in SessionIds |->
             [lastLock |-> "none", held |-> FALSE, won |-> 0, tried |-> FALSE]]
Released(h, id, wasHeld) ==
    [h EXCEPT ![id] = [lastLock |-> "released", held |-> wasHeld, won |-> 0, tried |-> FALSE]]
Tried(h, id, ok) ==
    [h EXCEPT ![id] = [lastLock |-> IF ok THEN "acquired" ELSE @.lastLock,
                       held |-> IF ok THEN FALSE ELSE @.held,
                       won |-> IF ok /\ @.won < 2 THEN @.won + 1 ELSE @.won,
                       tried |-> TRUE]]

\* The methods that call time.Now(): CreateSession, GetSession,
\* GetSessionByPodName and SetActive(id, true).
ReadsClock(op, arg) ==
    \/ op \in {"CreateSession", "GetSession", "GetSessionByPodName"}
    \/ op = "SetActive" /\ arg

\* The goroutines that drop what a call returns: the callers of the bare API.
Discards(p) == p \in Callers

\* ---- a Manager method, first half: m.mu.Lock() / m.mu.RLock(), then the reads.
\* f is the frame of the call, with the method and its arguments.
Reads(f, id) ==
    [f EXCEPT !.st = "exit", !.id = id, !.e = Exists(id),
              !.b = Exists(id) /\ sessions[id].ExecLock,
              !.t = IF ReadsClock(f.op, f.arg) THEN now ELSE 0]

Enter(p, f) ==
    LET mode == LockMode(f.op)
        found == {id \in DOMAIN sessions : sessions[id].PodName = f.pod}
        targets == IF f.op = "GetSessionByPodName"
                     THEN (IF found = {} THEN {NoId} ELSE found)
                     ELSE {f.id}
    IN /\ IF mode = "W" THEN CanLock(p) ELSE CanRLock(p)
       /\ mu' = Acquire(p, mode)
       /\ \E id \in targets : call' = [call EXCEPT ![p] = Reads(f, id)]

Frame(op, id, arg, pod, user) ==
    [NoCall EXCEPT !.op = op, !.id = id, !.arg = arg, !.pod = pod, !.user = user]

\* ---- a Manager method, second half: what it writes and returns, given the
\* frame c with what it read: the map, the ids handed out, the history of the
\* exec locks, whether a Session field is written, and the return value.
RegResult(c) ==
    LET live == Exists(c.id)
        res(s, n, h, w, r) == [sessions |-> s, issued |-> n, hist |-> h, wrote |-> w, rv |-> r]
    IN
    CASE c.op = "CreateSession" ->
           res(CreateSessionEffect(issued + 1, c.pod, c.user, c.t), issued + 1, hist, FALSE,
               [NoRv EXCEPT !.ok = TRUE, !.id = issued + 1])
      [] c.op \in {"GetSession", "GetSessionByPodName"} ->
           res(IF c.e /\ live THEN [sessions EXCEPT ![c.id] = TouchEffect(@, c.t)] ELSE sessions,
               issued, hist, c.e,
               [NoRv EXCEPT !.ok = c.e, !.id = c.id, !.existed = c.e])
      [] c.op = "DeleteSession" ->
           res(Without(sessions, c.id), issued, hist, FALSE, [NoRv EXCEPT !.existed = live])
      [] c.op = "SetActive" ->
           res(IF live THEN [sessions EXCEPT ![c.id] = SetActiveEffect(@, c.arg, c.t)] ELSE sessions,
               issued,
               IF live /\ ~c.arg THEN Released(hist, c.id, sessions[c.id].ExecLock) ELSE hist,
               live, [NoRv EXCEPT !.existed = live])
      [] c.op = "TryLockExec" ->
           LET ok == TryLockResult(c.e, c.b) IN
           res(IF ok /\ live THEN [sessions EXCEPT ![c.id].ExecLock = TRUE] ELSE sessions,
               issued,
               IF c.e THEN Tried(hist, c.id, ok) ELSE hist,
               ok,
               [ok |-> ok, id |-> c.id, existed |-> c.e,
                prior |-> IF c.e THEN hist[c.id].lastLock ELSE "none"])
      [] c.op = "UnlockExec" ->
           res(IF live THEN [sessions EXCEPT ![c.id] = UnlockExecEffect(@)] ELSE sessions,
               issued,
               IF live THEN Released(hist, c.id, sessions[c.id].ExecLock) ELSE hist,
               live, [NoRv EXCEPT !.existed = live])

\* The writes are made.
Commit(r) ==
    /\ sessions' = r.sessions
    /\ issued' = r.issued
    /\ hist' = r.hist

\* The writes, the deferred unlock and the return of a call of the bare API.
RegExit(p) ==
    /\ call[p].st = "exit"
    /\ LET c == call[p]
           r == RegResult(c)
       IN
       /\ Commit(r)
       /\ call' = [call EXCEPT ![p] =
                     IF Discards(p) THEN NoCall
                     ELSE [Frame(c.op, c.id, c.arg, c.pod, c.user) EXCEPT
                             !.st = "ret", !.wm = IF r.wrote THEN Held(p) ELSE "-"]]
       /\ rv' = [rv EXCEPT ![p] = IF Discards(p) THEN NoRv ELSE r.rv]
       /\ mu' = Release(p)
       /\ pc' = [pc EXCEPT ![p] = IF Discards(p) THEN "idle" ELSE @]
    /\ UNCHANGED <<clock, bridge, san, sw, loc, cluster>>

\* A method called by a goroutine of the program.  Nothing of the program
\* runs inside its critical section, so the call is one step, taken when the
\* side of m.mu it takes is free.  (Readers do not overlap here; they do under
\* the callers of the bare API.)
\* (The history of the exec locks is kept for the calls of the bare API.)
CommitQuiet(r) ==
    /\ sessions' = r.sessions
    /\ issued' = r.issued
    /\ hist' = hist

Invoke(p, f) ==
    /\ IF LockMode(f.op) = "W" THEN CanLock(p) ELSE CanRLock(p)
    /\ CommitQuiet(RegResult(Reads(f, f.id)))
Returned(f) == RegResult(Reads(f, f.id)).rv

\* time.Now() moves on.
Tick ==
    /\ now < MaxTime
    /\ now' = now + 1
    /\ UNCHANGED <<registry, timeout, bridge, san, frames, cluster>>

\* ------------------------------------------------- CleanupStaleSessions
\* (mutant) the answer of the predicate is dropped.
SweepRemoves_Always(isNil, says) == TRUE

\* line 432: if shouldDelete == nil || shouldDelete(id)
SweepRemoves(isNil, says) == isNil \/ says

\* delete(m.sessions, id); deleted = append(deleted, id); next iteration
SweepDelete(f, id) == [f EXCEPT !.todo = @ \ {id}, !.deleted = Append(@, id), !.cur = NoId]
SweepSkip(f, id)   == [f EXCEPT !.todo = @ \ {id}, !.cur = NoId]

\* CleanupStaleSessions(ctx, shouldDelete) is called: m.mu.Lock();
\* now := time.Now(); start ranging over m.sessions
SweepEnter(p, kind, fn) ==
    /\ CanLock(p)
    /\ mu' = Acquire(p, "W")
    /\ sw' = [sw EXCEPT ![p] = [NoSw EXCEPT !.pred = kind, !.fn = fn,
                                            !.todo = DOMAIN sessions, !.nowS = now,
                                            !.snap = IF kind = "cleaner" THEN <<>> ELSE sessions]]
    /\ pc' = [pc EXCEPT ![p] = "sweep_loop"]

\* One iteration of the range loop (the map is ranged over in any order), with a
\* nil predicate or a predicate that only computes: fn is the set of ids it
\* answers true for.  The Cleaner's predicate is code of its own, below.
SweepIter(p) ==
    /\ pc[p] = "sweep_loop"
    /\ sw[p].pred # "cleaner"
    /\ \E id \in sw[p].todo :
         LET f == sw[p]
             elig == Exists(id) /\ SweepEligible(sessions[id], f.nowS)
         IN
         IF elig /\ SweepRemoves(f.pred = "nil", id \in f.fn)
           THEN /\ sessions' = Without(sessions, id)
                /\ sw' = [sw EXCEPT ![p] = SweepDelete(f, id)]
           ELSE /\ sw' = [sw EXCEPT ![p] = SweepSkip(f, id)]
                /\ UNCHANGED sessions
    /\ UNCHANGED <<issued, mu, hist, clock, bridge, san, pc, call, rv, loc, cluster>>

\* The loop is over: the deferred m.mu.Unlock(), return deleted.
SweepExit(p) ==
    /\ pc[p] = "sweep_loop"
    /\ sw[p].todo = {}
    /\ mu' = Release(p)
    /\ sw' = [sw EXCEPT ![p] = NoSw]
    /\ pc' = [pc EXCEPT ![p] = "idle"]
    /\ UNCHANGED <<sessions, issued, hist, clock, bridge, san, call, rv, loc, cluster>>

\* -------------------------------------------- callers of the Manager API
ApiPod  == <<"p">>     \* the pod name callers pass
ApiUser == <<"u">>     \* the user id callers pass
ApiOps  == {"CreateSession", "GetSession", "DeleteSession", "SetActive",
            "TryLockExec", "UnlockExec", "GetSessionByPodName"}

\* A goroutine calls one method with any arguments.
ApiCall(p) ==
    /\ pc[p] = "idle"
    /\ \E op \in ApiOps, id \in SessionIds, arg \in BOOLEAN :
         /\ op = "CreateSession" => issued < MaxSessions
         /\ op \in {"CreateSession", "GetSessionByPodName"} => id = 1
         /\ op # "SetActive" => ~arg
         /\ Enter(p, Frame(op,
                           IF op \in {"CreateSession", "GetSessionByPodName"} THEN NoId ELSE id,
                           arg,
                           IF op \in {"CreateSession", "GetSessionByPodName"} THEN ApiPod ELSE NoPod,
                           IF op = "CreateSession" THEN ApiUser ELSE NoPod))
    /\ pc' = [pc EXCEPT ![p] = "wait"]
    /\ UNCHANGED <<sessions, issued, hist, clock, bridge, san, rv, sw, loc, cluster>>

\* A goroutine calls CleanupStaleSessions with nil or with any predicate that
\* only computes.
ApiSweep(p) ==
    /\ pc[p] = "idle"
    /\ \E kind \in {"nil", "pure"}, fn \in SUBSET SessionIds :
         /\ kind = "nil" => fn = {}
         /\ SweepEnter(p, kind, fn)
    /\ UNCHANGED <<sessions, issued, hist, clock, bridge, san, call, rv, loc, cluster>>

\* The locals of a request: sessionID, reconnect, sess.PodName, (history) the
\* way HandleWebSocket returned, and the ticks its LastUsed goroutine has seen.
NoLoc == [sid |-> NoId, reconnect |-> FALSE, pod |-> NoPod, how |-> "none", n |-> 0,
          touched |-> FALSE]
\* A CreatePodWithStatus frame: where it stands, its arguments (sessionID,
\* username), podName, the error it returns, and (history) whether it found
\* a pod of that name.
NoPm == [st |-> "none", sid |-> NoId, user |-> NoPod, name |-> NoPod,
         err |-> "none", found |-> FALSE]
NoPrev == [ok |-> FALSE, user |-> NoPod, name |-> NoPod]

\* No UpdatePodHeartbeat call in flight; no heartbeat on a pod.
NoBeat == -1
\* The connection.  st is the client: "up", "closed" (it has sent a close
\* frame) or "gone" (it has vanished without one); sent, the data frames it
\* has sent so far; pinger, the goroutine probing it: "run" or "returned".
\* (History: beats, the heartbeat ticks taken; probeFailed, a failed probe
\* has cancelled the context; finalBeat, UpdatePodHeartbeat has been called
\* since.)  due is the time of the next tick of heartbeatTicker, where the
\* time of the ticks is kept.
NoPeer == [st |-> "up", sent |-> <<>>, pinger |-> "run", beats |-> 0,
           probeFailed |-> FALSE, finalBeat |-> FALSE, due |-> NoBeat]
\* No error, and the errors told apart by identity (==) and by Error().
NoErr == [id |-> "nil", msg |-> "", wraps |-> <<>>]
\* stdinStream{ws, sessionSent: false, buffer: nil, ctx} and the call it
\* serves.  st is where Read stands: "idle" (no Read in progress), "top",
\* "loop", "wait" (inside ReadMessage), "beat" (inside the close handler's
\* UpdatePodHeartbeat); next, the place in the client's frames ReadMessage
\* has come to; buffer, <<frame, offset>> for the rest of a message.
\* (History: out, what Read has handed on, as [idx, off, n]; skipped, the
\* frames it dropped; ret, what the last Read returned; after, the Read in
\* hand began with the context cancelled; conn, it has called ReadMessage;
\* ev, what ReadMessage gave it last; exec, result, ended: the error of
\* StreamWithContext and what StreamTerminal returned for it.)
NoStdin == [sessionSent |-> FALSE, buffer |-> <<>>, next |-> 1, st |-> "idle",
            out |-> <<>>, skipped |-> {}, ret |-> "none", after |-> FALSE,
            conn |-> FALSE, ev |-> "none", plen |-> 0,
            exec |-> NoErr, result |-> NoErr, ended |-> FALSE]
\* No call of sanitizeUsername yet.
NoSan == [arg |-> <<>>, res |-> <<>>, called |-> FALSE]

InitCommon ==
    /\ ctxDone = {}
    /\ peer = NoPeer
    /\ stdin = NoStdin
    /\ hbt = [p \in Procs |-> NoBeat]
    /\ sessions = <<>>
    /\ issued = 0
    /\ mu = [w |-> NoOne, r |-> {}]
    /\ hist = NoHist
    /\ now = 0
    /\ pc = [p \in Procs |-> "idle"]
    /\ call = [p \in Procs |-> NoCall]
    /\ rv = [p \in Procs |-> NoRv]
    /\ sw = [p \in Procs |-> NoSw]
    /\ loc = [p \in Procs |-> NoLoc]
    /\ pm = [p \in Procs |-> NoPm]
    /\ prev = [p \in Procs |-> NoPrev]

InitMgr ==
    InitCommon /\ timeout \in 0..MaxTimeout /\ limitsOK = TRUE /\ pods = <<>> /\ san = NoSan

\* The Manager under arbitrary concurrent callers.
NextMgr ==
    \/ Tick
    \/ \E p \in Callers :
         \/ ApiCall(p)
         \/ ApiSweep(p)
         \/ RegExit(p)
         \/ SweepIter(p)
         \/ SweepExit(p)

SpecMgr == InitMgr /\ [][NextMgr]_vars

\* ============================================================ PodManager
\* Strings are sequences of one-character strings.  The characters that are
\* neither ASCII letters, digits, '.' nor '-' all take the same path through
\* sanitizeUsername.
MaxNameLen == 63       \* Kubernetes limit on a name
PrefixLen  == 10       \* "kubrowser-" is 10 chars
Lowers == <<"a","b","c","d","e","f","g","h","i","j","k","l","m",
            "n","o","p","q","r","s","t","u","v","w","x","y","z">>
Uppers == <<"A","B","C","D","E","F","G","H","I","J","K","L","M",
            "N","O","P","Q","R","S","T","U","V","W","X","Y","Z">>
Digits == {"0","1","2","3","4","5","6","7","8","9"}
Anonymous == <<"a","n","o","n","y","m","o","u","s">>
KubrowserPrefix == <<"k","u","b","r","o","w","s","e","r","-">>

\* strings.ToLower
ToLowerCh(c) ==
    IF \E i \in DOMAIN Uppers : Uppers[i] = c
    THEN Lowers[CHOOSE i \in DOMAIN Uppers : Uppers[i] = c]
    ELSE c
ToLower(s) == [i \in DOMAIN s |-> ToLowerCh(s[i])]

isAlphanumeric(r) == r \in Range(Lowers) \cup Digits

\* (mutant) the regexp [^a-z0-9._-], which lets the underscore through
ReplaceInvalid_KeepsUnderscore(s) ==
    [i \in DOMAIN s |->
        IF isAlphanumeric(s[i]) \/ s[i] \in {".", "-", "_"} THEN s[i] ELSE "-"]

\* regexp [^a-z0-9.-], ReplaceAllString(username, "-")
ReplaceInvalid(s) ==
    [i \in DOMAIN s |-> IF isAlphanumeric(s[i]) \/ s[i] \in {".", "-"} THEN s[i] ELSE "-"]

\* strings.Trim(username, "-.")
RECURSIVE TrimLeft(_)
TrimLeft(s) ==
    IF s # <<>> /\ Head(s) \in {"-", "."} THEN TrimLeft(Tail(s)) ELSE s
RECURSIVE TrimRight(_)
TrimRight(s) ==
    IF s # <<>> /\ s[Len(s)] \in {"-", "."} THEN TrimRight(SubSeq(s, 1, Len(s) - 1)) ELSE s
Trim(s) == TrimRight(TrimLeft(s))

sanitizeUsername(username) ==
    LET u0 == IF username = <<>> THEN Anonymous ELSE username
        u1 == Trim(ReplaceInvalid(ToLower(u0)))
        u2 == IF Len(u1) > 0 /\ ~isAlphanumeric(u1[1]) THEN <<"u">> \o u1 ELSE u1
        u3 == IF Len(u2) > 0 /\ ~isAlphanumeric(u2[Len(u2)]) THEN u2 \o <<"0">> ELSE u2
        u4 == IF Len(u3) > MaxNameLen
              THEN LET t == SubSeq(u3, 1, MaxNameLen) IN
                   IF ~isAlphanumeric(t[Len(t)])
                   THEN SubSeq(t, 1, MaxNameLen - 1) \o <<"0">>
                   ELSE t
              ELSE u3
    IN  IF u4 = <<>> THEN Anonymous ELSE u4

\* ---------------------------------------- sanitizeUsername on any input
MaxInput == 3          \* length of the part of a username that varies
\* One character of every kind sanitizeUsername tells apart: a lowercase
\* letter, an uppercase letter, a digit, a dot, a hyphen, anything else.
SanAlphabet == {"a", "Z", "7", ".", "-", "_"}
Repeat(c, k) == [i \in 1..k |-> c]
\* The usernames: every string of up to MaxInput characters, alone or after
\* a run of letters that brings it up to, or over, the limit of 63.
SanInputs ==
    LET short == UNION {[1..n -> SanAlphabet] : n \in 0..MaxInput} IN
    short \cup {Repeat("a", k) \o t : k \in {MaxNameLen - 2, MaxNameLen - 1}, t \in short}

InitSan ==
    /\ InitCommon /\ timeout = 0 /\ limitsOK = TRUE /\ pods = <<>>
    /\ san \in {[NoSan EXCEPT !.arg = u] : u \in SanInputs}

\* sanitizeUsername(username) is called and returns.
Sanitize ==
    /\ ~san.called
    /\ san' = [san EXCEPT !.res = sanitizeUsername(san.arg), !.called = TRUE]
    /\ UNCHANGED <<registry, clock, bridge, frames, cluster>>

SpecSan == InitSan /\ [][Sanitize]_vars

\* The sanitizedUsername CreatePodWithStatus ends up with (the pod's label).
PodUsername(username) ==
    LET s == sanitizeUsername(username) IN
    IF /\ Len(KubrowserPrefix \o s) > MaxNameLen
       /\ MaxNameLen - PrefixLen > 0
       /\ Len(s) > MaxNameLen - PrefixLen
    THEN SubSeq(s, 1, MaxNameLen - PrefixLen)
    ELSE s

\* (mutant) a pod name per session: kubrowser-{username}{sessionID}
PodName_PerSession(sessionID, username) ==
    KubrowserPrefix \o PodUsername(username) \o <<ToString(sessionID)>>

\* podName of CreatePodWithStatus(ctx, sessionID, username, ...)
PodName(sessionID, username) == KubrowserPrefix \o PodUsername(username)

\* ------------------------------------------- the pod name on any owner
\* The owners: the usernames of SanInputs, and every short string after a
\* run of letters that brings the sanitized owner up to, or just over, the
\* room the prefix leaves (63 - 10).
NameInputs ==
    LET short == UNION {[1..n -> SanAlphabet] : n \in 0..MaxInput} IN
    SanInputs \cup
    {Repeat("a", k) \o t : k \in {MaxNameLen - PrefixLen - 2, MaxNameLen - PrefixLen - 1},
                           t \in short}

InitName ==
    /\ InitCommon /\ timeout = 0 /\ limitsOK = TRUE /\ pods = <<>>
    /\ san \in {[NoSan EXCEPT !.arg = u] : u \in NameInputs}

\* CreatePodWithStatus(ctx, sessionID, username, ...) derives podName.
DeriveName ==
    /\ ~san.called
    /\ san' = [san EXCEPT !.res = PodName(NoId, san.arg), !.called = TRUE]
    /\ UNCHANGED <<registry, clock, bridge, frames, cluster>>

SpecName == InitName /\ [][DeriveName]_vars

\* --------------------------------------------------------- the cluster
\* The pod CreatePodWithStatus builds: its labels, and the volumes of its
\* PodSpec (the spec sets none).  (History: by is the goroutine whose call
\* created the pod, NoOne for a pod the cluster held before the backend started.)
Pod(sessionID, username) ==
    [phase |-> "Pending", ready |-> FALSE, term |-> FALSE,
     sid |-> sessionID, user |-> PodUsername(username),
     volumes |-> {}, by |-> NoOne, hb |-> NoBeat]

PodExists(name) == name \in DOMAIN pods

\* Pods(ns).Create: the pods after it, when the name is free.
ClusterCreate(name, pod) == [n \in DOMAIN pods \cup {name} |-> IF n = name THEN pod ELSE pods[n]]

\* Pods(ns).Delete with foreground propagation: the pod is marked for
\* deletion and stays until its containers have stopped.
ClusterDelete(name) ==
    IF PodExists(name) THEN [pods EXCEPT ![name].term = TRUE] ELSE pods

\* waitForPodReady's condition on the pod it got.
PodIsReady(pod) == pod.phase = "Running" /\ pod.ready

\* The kubelet starts the container of a pod ...
KubeletStart ==
    /\ \E n \in DOMAIN pods :
         /\ pods[n].phase = "Pending" /\ ~pods[n].term
         /\ pods' = [pods EXCEPT ![n].phase = "Running"]
    /\ UNCHANGED <<registry, clock, bridge, san, frames, limitsOK, pm, prev>>

\* ... reports it Ready ...
KubeletReady ==
    /\ \E n \in DOMAIN pods :
         /\ pods[n].phase = "Running" /\ ~pods[n].ready /\ ~pods[n].term
         /\ pods' = [pods EXCEPT ![n].ready = TRUE]
    /\ UNCHANGED <<registry, clock, bridge, san, frames, limitsOK, pm, prev>>

\* ... and removes a pod marked for deletion once its container has stopped.
PodGone ==
    /\ \E n \in DOMAIN pods :
         /\ pods[n].term
         /\ pods' = Without(pods, n)
    /\ UNCHANGED <<registry, clock, bridge, san, frames, limitsOK, pm, prev>>

\* ------------------------------------------------- CreatePodWithStatus
\* One step of goroutine p in the PodManager: its frame becomes f and the
\* cluster ps.  (History: what the other goroutines remember of their
\* own last call is dropped, it is no longer the call just before.)  A
\* goroutine that discards results is idle again once the call has returned,
\* be it CreatePodWithStatus ("ret") or DeletePod ("del").
PmStep(p, f, ps, pv) ==
    /\ pm' = [q \in Procs |->
                IF q = p THEN f
                ELSE IF Discards(q) /\ pm[q].st \in {"ret", "del"} THEN NoPm ELSE pm[q]]
    /\ pods' = ps
    /\ prev' = [q \in Procs |-> IF q = p THEN pv ELSE NoPrev]

\* ... and the goroutine is where f says.
PmPc(p, f) ==
    pc' = [pc EXCEPT ![p] = IF Discards(p) /\ f.st = "ret" THEN "idle" ELSE @]

\* Entry: podName is derived and looked up; an existing pod is to be deleted.
CpBegin(p, sessionID, username, pv) ==
    \E apiErr \in BOOLEAN :
        LET name  == PodName(sessionID, username)
            found == ~apiErr /\ PodExists(name) IN
        PmStep(p, [st |-> IF found THEN "delete" ELSE "create", sid |-> sessionID,
                   user |-> username, name |-> name, err |-> "none", found |-> found],
               pods, pv)

\* The existing pod is deleted; a failure is only reported.  Then the call
\* sleeps for a second.
CpDelete(p) ==
    /\ pm[p].st = "delete"
    /\ \E apiErr \in BOOLEAN :
         PmStep(p, [pm[p] EXCEPT !.st = "create"],
                IF apiErr THEN pods ELSE ClusterDelete(pm[p].name), prev[p])
    /\ UNCHANGED <<registry, clock, bridge, san, frames, limitsOK>>

\* The limits are parsed and the pod is created.
CpCreate(p) ==
    /\ pm[p].st = "create"
    /\ \E apiErr \in BOOLEAN :
         LET failed(e) == [pm[p] EXCEPT !.st = "ret", !.err = e]
             f == IF ~limitsOK THEN failed("config")
                  ELSE IF PodExists(pm[p].name) THEN failed("exists")
                  ELSE IF apiErr THEN failed("create")
                  ELSE [pm[p] EXCEPT !.st = "wait"]
         IN /\ PmStep(p, f,
                      IF f.st = "wait"
                      THEN ClusterCreate(pm[p].name,
                                         [Pod(pm[p].sid, pm[p].user) EXCEPT !.by = p])
                      ELSE pods,
                      prev[p])
            /\ PmPc(p, f)
    /\ UNCHANGED <<registry, clock, bridge, san, call, rv, sw, loc, limitsOK>>

\* waitForPodReady: a poll finds the pod Running and Ready.
CpPollReady(p) ==
    /\ pm[p].st = "wait"
    /\ PodExists(pm[p].name) /\ PodIsReady(pods[pm[p].name])
    /\ PmStep(p, [pm[p] EXCEPT !.st = "ret"], pods, prev[p])
    /\ PmPc(p, [pm[p] EXCEPT !.st = "ret"])
    /\ UNCHANGED <<registry, clock, bridge, san, call, rv, sw, loc, limitsOK>>

\* waitForPodReady: a poll fails, or the five minutes are over.
CpPollFail(p) ==
    /\ pm[p].st = "wait"
    /\ PmStep(p, [pm[p] EXCEPT !.st = "cleanup", !.err = "ready"], pods, prev[p])
    /\ UNCHANGED <<registry, clock, bridge, san, frames, limitsOK>>

\* The pod that did not become ready is deleted, whatever DeletePod returns.
CpCleanup(p) ==
    /\ pm[p].st = "cleanup"
    /\ \E apiErr \in BOOLEAN :
         PmStep(p, [pm[p] EXCEPT !.st = "ret"],
                IF apiErr THEN pods ELSE ClusterDelete(pm[p].name), prev[p])
    /\ PmPc(p, [pm[p] EXCEPT !.st = "ret"])
    /\ UNCHANGED <<registry, clock, bridge, san, call, rv, sw, loc, limitsOK>>

\* ------------------------------------------- callers of the PodManager
PodUsers == {<<"A", "l">>, <<"a", "l">>}

\* A goroutine calls CreatePodWithStatus with any session id and username.
\* (History: its last call, if that returned a pod, is the call just before.)
PodCall(p) ==
    /\ pc[p] = "idle"
    /\ \E sessionID \in SessionIds, username \in PodUsers :
         CpBegin(p, sessionID, username,
                 IF pm[p].st = "ret" /\ pm[p].err = "none"
                 THEN [ok |-> TRUE, user |-> pm[p].user, name |-> pm[p].name]
                 ELSE NoPrev)
    /\ pc' = [pc EXCEPT ![p] = "cp"]
    /\ UNCHANGED <<registry, clock, bridge, san, call, rv, sw, loc, limitsOK>>

\* What Pods(ns).Delete answers: an error of the API, nil, or NotFound.
DeleteAnswer(name, apiErr) ==
    IF apiErr THEN "error" ELSE IF PodExists(name) THEN "ok" ELSE "notfound"

\* (mutant) DeletePod handing every error of Delete on, NotFound too.
DeletePodReturns_NotFound(answer) == IF answer = "ok" THEN "none" ELSE answer

\* What DeletePod returns for an answer of Delete: nil when the pod is not
\* found, as when it was deleted; any other error is returned.
DeletePodReturns(answer) ==
    IF answer = "ok" THEN "none"
    ELSE IF answer = "notfound" THEN "none"
    ELSE answer

\* A goroutine calls DeletePod with the name of some user's pod.  The frame
\* keeps the name, what DeletePod returned and (history) whether the pod was
\* there; prev, whether the goroutine's call just before was a DeletePod
\* that returned nil.
PodDeleteCall(p) ==
    /\ pc[p] = "idle"
    /\ \E username \in PodUsers, apiErr \in BOOLEAN :
         LET name == PodName(NoId, username) IN
         PmStep(p, [NoPm EXCEPT !.st = "del", !.name = name,
                                !.err = DeletePodReturns(DeleteAnswer(name, apiErr)),
                                !.found = PodExists(name)],
                IF apiErr THEN pods ELSE ClusterDelete(name),
                IF pm[p].st = "del" /\ pm[p].err = "none"
                THEN [NoPrev EXCEPT !.ok = TRUE, !.name = pm[p].name]
                ELSE NoPrev)
    /\ UNCHANGED <<registry, clock, bridge, san, frames, limitsOK>>

\* The cluster outlives the backend: when the PodManager is constructed the
\* namespace is empty, or holds the pod an earlier run (with limits of its
\* own) left for a user, Running and Ready.
LeftOver ==
    {<<>>} \cup
    {PodName(NoId, u) :> [Pod(NoId, u) EXCEPT !.phase = "Running", !.ready = TRUE] :
        u \in PodUsers}

InitPod ==
    InitCommon /\ timeout = 0 /\ limitsOK \in BOOLEAN /\ pods \in LeftOver /\ san = NoSan

\* The PodManager under arbitrary concurrent callers, and the cluster.
NextPod ==
    \/ KubeletStart
    \/ KubeletReady
    \/ PodGone
    \/ \E p \in Callers :
         \/ PodCall(p)
         \/ PodDeleteCall(p)
         \/ CpDelete(p)
         \/ CpCreate(p)
         \/ CpPollReady(p)
         \/ CpPollFail(p)
         \/ CpCleanup(p)

SpecPod == InitPod /\ [][NextPod]_vars

\* ============================================== api.Handlers, cleanup.Cleaner
MaxNew     == 1        \* connections that are given a new session
MaxRefresh == 1        \* ticks of the LastUsed tickers that find their goroutine waiting

HwsUser == <<"a", "l">>          \* the user of the requests
generateSessionID == MaxSessions + 1   \* a fresh id: the pod's label, no key of the registry
Refresher(h) == h + 100          \* the LastUsed goroutine started by connection h
Connection(r) == r - 100

At(p, where) == [pc EXCEPT ![p] = where]
Exit(p, why) == [loc EXCEPT ![p] = [NoLoc EXCEPT !.how = why]]

\* HandleWebSocket is called for a connection.  A reconnect (a session id
\* with reconnect=true) looks the session up, and returns "Session not found"
\* or goes on to the lock; a request with neither gets a pod first.
HwsStartOf(h, ids, maxNew, conn) ==
    /\ pc[h] = "idle"
    /\ \E sessionID \in ids :
         LET reconnect == sessionID # NoId
             f == Frame("GetSession", sessionID, FALSE, NoPod, NoPod) IN
         IF sessionID # NoId /\ reconnect
         THEN /\ Invoke(h, f)
              /\ IF Returned(f).ok
                 THEN /\ pc' = At(h, "lock")
                      /\ loc' = [loc EXCEPT ![h] = [NoLoc EXCEPT !.sid = sessionID,
                                                                 !.reconnect = TRUE,
                                                                 !.pod = sessions[sessionID].PodName]]
                 ELSE /\ pc' = pc
                      /\ loc' = Exit(h, "nosession")
              /\ UNCHANGED cluster
         ELSE /\ issued + Cardinality({q \in Handlers : pc[q] = "cp"}) < maxNew
              /\ CpBegin(h, generateSessionID, HwsUser, NoPrev)
              /\ pc' = At(h, "cp")
              /\ loc' = [loc EXCEPT ![h] = [NoLoc EXCEPT !.reconnect = reconnect]]
              /\ UNCHANGED <<sessions, issued, hist, limitsOK>>
    /\ conn
    /\ UNCHANGED <<mu, clock, san, call, rv, sw>>

HwsStart(h) == HwsStartOf(h, SessionIds \cup {NoId}, MaxNew, UNCHANGED bridge)

\* (mutant) the error of CreatePodWithStatus is not looked at.
HwsCreated_IgnoresErr(h) ==
    /\ pc[h] = "cp" /\ pm[h].st = "ret"
    /\ pm' = [pm EXCEPT ![h] = NoPm]
    /\ LET f == Frame("CreateSession", NoId, FALSE, pm[h].name, HwsUser) IN
       /\ Invoke(h, f)
       /\ pc' = At(h, "lock")
       /\ loc' = [loc EXCEPT ![h].sid = Returned(f).id, ![h].pod = pm[h].name]
       /\ UNCHANGED mu
    /\ UNCHANGED <<clock, bridge, san, call, rv, sw, pods, limitsOK, prev>>

\* CreatePodWithStatus has returned: "Failed to create pod", or CreateSession.
HwsCreated(h) ==
    /\ pc[h] = "cp" /\ pm[h].st = "ret"
    /\ pm' = [pm EXCEPT ![h] = NoPm]
    /\ IF pm[h].err # "none"
       THEN /\ pc' = At(h, "idle")
            /\ loc' = Exit(h, "createfail")
            /\ UNCHANGED registry
       ELSE LET f == Frame("CreateSession", NoId, FALSE, pm[h].name, HwsUser) IN
            /\ Invoke(h, f)
            /\ pc' = At(h, "lock")
            /\ loc' = [loc EXCEPT ![h].sid = Returned(f).id, ![h].pod = pm[h].name]
            /\ UNCHANGED mu
    /\ UNCHANGED <<clock, bridge, san, call, rv, sw, pods, limitsOK, prev>>

\* (mutant) the release is deferred before the lock is tried.
HwsTryLock_DefersFirst(h) ==
    /\ pc[h] = "lock"
    /\ LET f == Frame("TryLockExec", loc[h].sid, FALSE, NoPod, NoPod) IN
       /\ Invoke(h, f)
       /\ IF Returned(f).ok
          THEN pc' = At(h, "locked") /\ loc' = loc
          ELSE pc' = At(h, "unlock") /\ loc' = [loc EXCEPT ![h].how = "rejected"]
    /\ UNCHANGED <<mu, clock, bridge, san, call, rv, sw, cluster>>

\* if !TryLockExec(sessionID) { return }; defer { UnlockExec; SetActive(false) }
HwsTryLock(h) ==
    /\ pc[h] = "lock"
    /\ LET f == Frame("TryLockExec", loc[h].sid, FALSE, NoPod, NoPod) IN
       /\ Invoke(h, f)
       /\ IF Returned(f).ok
          THEN pc' = At(h, "locked") /\ loc' = loc
          ELSE pc' = At(h, "idle") /\ loc' = Exit(h, "rejected")
    /\ UNCHANGED <<mu, clock, bridge, san, call, rv, sw, cluster>>

\* SetActive(sessionID, true); a new session is sent its id, and if that fails
\* the handler returns; else the context is made and the goroutines start.
HwsSetActive(h) ==
    /\ pc[h] = "locked"
    /\ Invoke(h, Frame("SetActive", loc[h].sid, TRUE, NoPod, NoPod))
    /\ \E sendErr \in BOOLEAN :
         /\ sendErr => ~loc[h].reconnect
         /\ IF sendErr
            THEN /\ pc' = At(h, "unlock")
                 /\ loc' = [loc EXCEPT ![h].how = "sendfail"]
            ELSE /\ pc' = At(h, "getpod")
                 /\ loc' = loc
    /\ UNCHANGED <<mu, clock, bridge, san, call, rv, sw, cluster>>

\* GetPod(ctx, sess.PodName): "Pod not found", "Pod not running", or the stream
\* starts.  A return runs the deferred cancel().
HwsGetPodOf(h, cancel) ==
    /\ pc[h] = "getpod"
    /\ \E apiErr \in BOOLEAN :
         IF apiErr \/ ~PodExists(loc[h].pod)
         THEN /\ pc' = At(h, "unlock") /\ loc' = [loc EXCEPT ![h].how = "podmissing"]
              /\ cancel
         ELSE IF pods[loc[h].pod].phase # "Running"
         THEN /\ pc' = At(h, "unlock") /\ loc' = [loc EXCEPT ![h].how = "notrunning"]
              /\ cancel
         ELSE pc' = At(h, "stream") /\ loc' = loc /\ UNCHANGED bridge
    /\ UNCHANGED <<registry, clock, san, call, rv, sw, cluster>>

HwsGetPod(h) == HwsGetPodOf(h, UNCHANGED bridge)

\* StreamTerminal returns, with an error or without; the deferred cancel().
HwsStreamEnd(h) ==
    /\ pc[h] = "stream"
    /\ \E streamErr \in BOOLEAN :
         loc' = [loc EXCEPT ![h].how = IF streamErr THEN "streamerr" ELSE "streamend"]
    /\ pc' = At(h, "unlock")
    /\ UNCHANGED <<registry, clock, bridge, san, call, rv, sw, cluster>>

\* The deferred function: UnlockExec(sessionID) ...
HwsUnlock(h) ==
    /\ pc[h] = "unlock"
    /\ Invoke(h, Frame("UnlockExec", loc[h].sid, FALSE, NoPod, NoPod))
    /\ pc' = At(h, "deactivate")
    /\ UNCHANGED <<mu, clock, bridge, san, call, rv, sw, loc, cluster>>

\* ... and SetActive(sessionID, false).
HwsDeactivate(h) ==
    /\ pc[h] = "deactivate"
    /\ Invoke(h, Frame("SetActive", loc[h].sid, FALSE, NoPod, NoPod))
    /\ pc' = At(h, "idle")
    /\ loc' = Exit(h, loc[h].how)
    /\ UNCHANGED <<mu, clock, bridge, san, call, rv, sw, cluster>>

\* The goroutines of connection h have been started and h has not returned.
Started(h) ==
    \/ pc[h] \in {"getpod", "stream"}
    \/ pc[h] \in {"unlock", "deactivate"} /\ loc[h].how # "sendfail"
Ticked == {r \in Refreshers : loc[r].n > 0}

\* The LastUsed goroutine: case <-ticker.C: GetSession(sessionID) ...
\* (case <-ctx.Done(): return changes nothing; a tick that is due when the
\* context is cancelled may still be taken.)
RefreshGet(r) ==
    /\ pc[r] = "idle" /\ Started(Connection(r))
    /\ loc[r].n = 0 /\ Cardinality(Ticked) < MaxRefresh
    /\ LET f == Frame("GetSession", loc[Connection(r)].sid, FALSE, NoPod, NoPod) IN
       /\ Invoke(r, f)
       /\ IF Returned(f).ok
          THEN /\ pc' = At(r, "store")
               /\ loc' = [loc EXCEPT ![r] = [NoLoc EXCEPT !.sid = f.id, !.n = 1]]
          ELSE /\ pc' = pc
               /\ loc' = [loc EXCEPT ![r].n = 1]
    /\ UNCHANGED <<mu, clock, bridge, san, call, rv, sw, cluster>>

\* ... sess.LastUsed = time.Now(), with no lock held.
RefreshStore(r) ==
    /\ pc[r] = "store"
    /\ sessions' = IF Exists(loc[r].sid)
                   THEN [sessions EXCEPT ![loc[r].sid].LastUsed = now]
                   ELSE sessions
    /\ pc' = At(r, "idle")
    /\ loc' = [loc EXCEPT ![r].sid = NoId]
    /\ UNCHANGED <<issued, mu, hist, clock, bridge, san, call, rv, sw, cluster>>

\* HandleDeleteSession: GetSession(sessionID): "Session not found", or on ...
DelStart(d) ==
    /\ pc[d] = "idle"
    /\ \E sessionID \in SessionIds :
         LET f == Frame("GetSession", sessionID, FALSE, NoPod, NoPod) IN
         /\ Invoke(d, f)
         /\ IF Returned(f).ok
            THEN /\ pc' = At(d, "del_pod")
                 /\ loc' = [loc EXCEPT ![d] =
                              [NoLoc EXCEPT !.sid = sessionID,
                                            !.pod = sessions[sessionID].PodName,
                                            !.touched = RegResult(Reads(f, f.id)).sessions[sessionID]
                                                            # sessions[sessionID]]]
            ELSE /\ pc' = At(d, "done")
                 /\ loc' = Exit(d, "nosession")
    /\ UNCHANGED <<mu, clock, bridge, san, call, rv, sw, cluster>>

\* (mutant) the error of DeletePod is logged and the handler goes on.
DelPod_IgnoresError(d) ==
    /\ pc[d] = "del_pod"
    /\ \E apiErr \in BOOLEAN :
         /\ pods' = IF apiErr THEN pods ELSE ClusterDelete(loc[d].pod)
         /\ pc' = At(d, "del_sess") /\ loc' = loc
    /\ UNCHANGED <<registry, clock, bridge, san, call, rv, sw, limitsOK, pm, prev>>

\* ... DeletePod(ctx, sess.PodName): "Failed to delete pod", or on ...
DelPod(d) ==
    /\ pc[d] = "del_pod"
    /\ \E apiErr \in BOOLEAN :
         IF apiErr
         THEN /\ pods' = pods /\ pc' = At(d, "done")
              /\ loc' = [loc EXCEPT ![d].how = "deletefail"]
         ELSE pods' = ClusterDelete(loc[d].pod) /\ pc' = At(d, "del_sess") /\ loc' = loc
    /\ UNCHANGED <<registry, clock, bridge, san, call, rv, sw, limitsOK, pm, prev>>

\* ... DeleteSession(sessionID).
DelSession(d) ==
    /\ pc[d] = "del_sess"
    /\ Invoke(d, Frame("DeleteSession", loc[d].sid, FALSE, NoPod, NoPod))
    /\ pc' = At(d, "done")
    /\ loc' = [loc EXCEPT ![d].how = "deleted"]
    /\ UNCHANGED <<mu, clock, bridge, san, call, rv, sw, cluster>>

\* Cleaner.Start, case <-ticker.C: cleanup calls CleanupStaleSessions with its
\* predicate.
CleanerTick(c) ==
    /\ pc[c] = "idle"
    /\ SweepEnter(c, "cleaner", {})
    /\ UNCHANGED <<sessions, issued, hist, clock, bridge, san, call, rv, loc, cluster>>

\* (mutant) a read lock that the holder of the write lock may take.
CanRLockInside_Reentrant(p) == mu.w \in {NoOne, p}

\* RLock called by goroutine p from inside the predicate
CanRLockInside(p) == CanRLock(p)

\* One iteration of the range loop with the Cleaner's predicate.  The loop
\* skips a session that is active or not idle for long enough, and calls the
\* predicate on any other: GetSession(sessionID) (pred_get: m.mu is still held
\* by CleanupStaleSessions), true if the session is gone; else DeletePod
\* (pred_del), false if that fails, else true.
CleanerStep(c) ==
    /\ pc[c] \in {"sweep_loop", "pred_get", "pred_del"}
    /\ LET f == sw[c]
           back(g)  == sw' = [sw EXCEPT ![c] = g] /\ pc' = At(c, "sweep_loop")
           remove   == sessions' = Without(sessions, f.cur) /\ back(SweepDelete(f, f.cur))
           get      == RegResult(Reads(Frame("GetSession", f.cur, FALSE, NoPod, NoPod), f.cur))
       IN
       CASE pc[c] = "sweep_loop" ->
              /\ \E id \in f.todo :
                   IF Exists(id) /\ SweepEligible(sessions[id], f.nowS)
                   THEN sw' = [sw EXCEPT ![c].cur = id] /\ pc' = At(c, "pred_get")
                   ELSE back(SweepSkip(f, id))
              /\ UNCHANGED <<sessions, pods>>
         [] pc[c] = "pred_get" ->
              /\ CanRLockInside(c)
              /\ IF get.rv.ok
                 THEN sessions' = get.sessions /\ pc' = At(c, "pred_del") /\ sw' = sw
                 ELSE remove
              /\ pods' = pods
         [] pc[c] = "pred_del" ->
              /\ \E apiErr \in BOOLEAN :
                   IF apiErr
                   THEN pods' = pods /\ sessions' = sessions /\ back(SweepSkip(f, f.cur))
                   ELSE pods' = ClusterDelete(sessions[f.cur].PodName) /\ remove
    /\ UNCHANGED <<issued, mu, hist, clock, bridge, san, call, rv, loc, limitsOK, pm, prev>>

InitProgram ==
    InitCommon /\ timeout = 0 /\ limitsOK = TRUE /\ pods = <<>> /\ san = NoSan

\* The program: connections, a delete request, the Cleaner, the cluster.
Next ==
    \/ Tick
    \/ KubeletStart
    \/ KubeletReady
    \/ PodGone
    \/ \E h \in Handlers :
         \/ HwsStart(h)
         \/ CpDelete(h)
         \/ CpCreate(h)
         \/ CpPollReady(h)
         \/ CpPollFail(h)
         \/ CpCleanup(h)
         \/ HwsCreated(h)
         \/ HwsTryLock(h)
         \/ HwsSetActive(h)
         \/ HwsGetPod(h)
         \/ HwsStreamEnd(h)
         \/ HwsUnlock(h)
         \/ HwsDeactivate(h)
    \/ \E r \in Refreshers :
         \/ RefreshGet(r)
         \/ RefreshStore(r)
    \/ DelStart(DeleterP)
    \/ DelPod(DeleterP)
    \/ DelSession(DeleterP)
    \/ CleanerTick(CleanerP)
    \/ CleanerStep(CleanerP)
    \/ SweepExit(CleanerP)

Spec == InitProgram /\ [][Next]_vars

\* ------------------------------- two connections that ask for a new session
MaxNewBoth == 2        \* connections that are given a new session, in SpecNew

\* HandleWebSocket called without a session id.
HwsNew(h) == HwsStartOf(h, {NoId}, MaxNewBoth, UNCHANGED bridge)

\* Connections of one user that ask for new sessions, up to CreateSession, and
\* the cluster.
NextNew ==
    \/ Tick
    \/ KubeletStart
    \/ KubeletReady
    \/ PodGone
    \/ \E h \in Handlers :
         \/ HwsNew(h)
         \/ CpDelete(h)
         \/ CpCreate(h)
         \/ CpPollReady(h)
         \/ CpPollFail(h)
         \/ CpCleanup(h)
         \/ HwsCreated(h)

SpecNew == InitProgram /\ [][NextNew]_vars

\* ----------------------------------------- Cleaner.Start, run more than once
\* case <-ticker.C: cleanup(ctx) is called ...
CleanerCycle(c) ==
    /\ pc[c] = "idle"
    /\ pc' = At(c, "cleanup")
    /\ UNCHANGED <<registry, clock, bridge, san, call, rv, sw, loc, cluster>>

\* ... and calls CleanupStaleSessions, which takes m.mu.
CleanerLock(c) ==
    /\ pc[c] = "cleanup"
    /\ SweepEnter(c, "cleaner", {})
    /\ UNCHANGED <<sessions, issued, hist, clock, bridge, san, call, rv, loc, cluster>>

\* The context given to Start is cancelled, or Stop closes stopChan.
CleanerCancel(c) ==
    /\ c \notin ctxDone
    /\ ctxDone' = ctxDone \cup {c}
    /\ UNCHANGED <<registry, clock, peer, stdin, hbt, san, frames, cluster>>

\* case <-c.stopChan / case <-ctx.Done(): return
CleanerReturn(c) ==
    /\ pc[c] = "idle" /\ c \in ctxDone
    /\ pc' = At(c, "returned")
    /\ UNCHANGED <<registry, clock, bridge, san, call, rv, sw, loc, cluster>>

\* A connection that gets a new session and leaves it behind, the cluster,
\* and the Cleaners.
NextReap ==
    \/ Tick
    \/ KubeletStart
    \/ KubeletReady
    \/ PodGone
    \/ \E h \in Handlers :
         \/ HwsStartOf(h, {NoId}, MaxNew, UNCHANGED bridge)
         \/ CpDelete(h)
         \/ CpCreate(h)
         \/ CpPollReady(h)
         \/ CpPollFail(h)
         \/ CpCleanup(h)
         \/ HwsCreated(h)
    \/ \E c \in Cleaners :
         \/ CleanerCycle(c)
         \/ CleanerLock(c)
         \/ CleanerStep(c)
         \/ SweepExit(c)
         \/ CleanerCancel(c)
         \/ CleanerReturn(c)

\* Go's scheduling: a Cleaner that can take a step of its cycle takes it; a
\* Lock that can be had again and again is had (the mutex hands itself to a
\* starving waiter); a select with Done ready again and again takes it.
SpecReap ==
    /\ InitProgram /\ [][NextReap]_vars
    /\ \A c \in Cleaners :
         /\ WF_vars(CleanerStep(c)) /\ WF_vars(SweepExit(c))
         /\ SF_vars(CleanerLock(c)) /\ SF_vars(CleanerReturn(c))

\* ================================================ the bridge of a connection
MaxFrames == 2         \* data frames the client sends on a connection
MaxBeats  == 1         \* ticks of the heartbeat ticker taken on a connection
BufLen    == 128       \* len(p) of the Reads made by the copier of stdin
SkipLimit == 200       \* len(message) < 200

BridgeH   == 101                 \* the goroutine serving the connections, one after another
Pinger(h) == h + 400
Reader(h) == h + 500
BridgePod == PodName(NoId, HwsUser)      \* sess.PodName

Done(h) == h \in ctxDone                 \* ctx.Done() is closed, ctx.Err() != nil
Min(a, b) == IF a < b THEN a ELSE b

\* The goroutines of connection h have been started and the ping goroutine
\* has not returned, whether the handler has or not.
BridgeUp(h) ==
    \/ Started(h)
    \/ pc[h] = "idle" /\ loc[h].how \in {"podmissing", "notrunning", "streamend", "streamerr"}
Pinging(h) == BridgeUp(h) /\ peer.pinger = "run" /\ hbt[Pinger(h)] = NoBeat

\* The upgrade of a new connection: the goroutines of the last one are gone.
BrConnect(h) ==
    /\ hbt[Pinger(h)] = NoBeat /\ hbt[Reader(h)] = NoBeat
    /\ BridgeUp(h) => peer.pinger = "returned"
    /\ ctxDone' = ctxDone \ {h}
    /\ peer' = NoPeer
    /\ stdin' = NoStdin
    /\ hbt' = hbt

\* cancel()
Cancel(h) == ctxDone' = ctxDone \cup {h} /\ UNCHANGED <<peer, stdin, hbt>>

\* ---- the client
\* A data frame as Read looks at it: its type, whether its first byte is '{',
\* its length.  One frame of each kind Read tells apart: the text that looks
\* like session info, the same a byte too long, other text, and binary data.
DataFrame(type, brace, len) == [type |-> type, brace |-> brace, len |-> len]
Frames == {DataFrame("text", TRUE, SkipLimit - 1), DataFrame("text", TRUE, SkipLimit),
           DataFrame("text", FALSE, SkipLimit - 1), DataFrame("binary", TRUE, SkipLimit - 1)}
Connected(h) == pc[h] \in {"getpod", "stream"}

\* The client sends a data frame.
ClientSendOf(h, fs) ==
    /\ Connected(h) /\ peer.st = "up" /\ Len(peer.sent) < MaxFrames
    /\ \E f \in fs : peer' = [peer EXCEPT !.sent = Append(@, f)]
    /\ UNCHANGED <<registry, clock, ctxDone, stdin, hbt, san, frames, cluster>>
ClientSend(h) == ClientSendOf(h, Frames)

\* The client closes the connection with a close frame.
ClientClose(h) ==
    /\ Connected(h) /\ peer.st = "up"
    /\ peer' = [peer EXCEPT !.st = "closed"]
    /\ UNCHANGED <<registry, clock, ctxDone, stdin, hbt, san, frames, cluster>>

\* The client disappears: no close frame.
ClientVanish(h) ==
    /\ Connected(h) /\ peer.st = "up"
    /\ peer' = [peer EXCEPT !.st = "gone"]
    /\ UNCHANGED <<registry, clock, ctxDone, stdin, hbt, san, frames, cluster>>

\* ---- UpdatePodHeartbeat(ctx, podName), in two steps: the time is read, the
\* pod is patched with it (or the patch fails, which is only logged).
BeatRead(p) == hbt' = [hbt EXCEPT ![p] = now]
BeatPatchOf(p, name, oks) ==
    /\ \E ok \in oks :
         pods' = IF ok /\ PodExists(name) THEN [pods EXCEPT ![name].hb = hbt[p]] ELSE pods
    /\ hbt' = [hbt EXCEPT ![p] = NoBeat]
BeatPatch(p, name) == BeatPatchOf(p, name, BOOLEAN)

\* ---- the ping goroutine
\* case <-ticker.C: WriteControl(PingMessage) fails: cancel(); return.  (A
\* ping that succeeds changes nothing.)
PingFail(h) ==
    /\ Pinging(h) /\ peer.st \in {"closed", "gone"}
    /\ ctxDone' = ctxDone \cup {h}
    /\ peer' = [peer EXCEPT !.pinger = "returned", !.probeFailed = @ \/ ~Done(h)]
    /\ UNCHANGED <<registry, clock, stdin, hbt, san, frames, cluster>>

\* case <-ctx.Done(): return
PingDone(h) ==
    /\ Pinging(h) /\ Done(h)
    /\ peer' = [peer EXCEPT !.pinger = "returned"]
    /\ UNCHANGED <<registry, clock, ctxDone, stdin, hbt, san, frames, cluster>>

\* case <-heartbeatTicker.C: UpdatePodHeartbeat(ctx, sess.PodName) ...  (With
\* ctx cancelled the call fails at once.)
\* The tick is taken when it is ready; the ticker's next tick is at next.
HbReadOf(h, ready, next) ==
    /\ Pinging(h) /\ ~Done(h) /\ ready
    /\ BeatRead(Pinger(h))
    /\ peer' = [peer EXCEPT !.beats = @ + 1, !.finalBeat = @ \/ peer.probeFailed,
                            !.due = next]
    /\ UNCHANGED <<registry, clock, ctxDone, stdin, san, frames, cluster>>
HbRead(h) == HbReadOf(h, peer.beats < MaxBeats, peer.due)

\* ... returns.
HbDoneOf(h, oks) ==
    /\ hbt[Pinger(h)] # NoBeat
    /\ BeatPatchOf(Pinger(h), BridgePod, oks)
    /\ UNCHANGED <<registry, clock, ctxDone, peer, stdin, san, frames, limitsOK, pm, prev>>
HbDone(h) == HbDoneOf(h, BOOLEAN)

\* ---- stdinStream.Read
\* The errors of ReadMessage: a close error with its code, and the others
\* with their text.
CloseError(code) == [id |-> "CloseError", code |-> code, msg |-> "websocket: close"]
NetError(text)   == [id |-> "net.Error", code |-> 0, msg |-> text]
IoEOF            == [id |-> "io.EOF", code |-> 0, msg |-> "EOF"]
ExpectedCodes    == {1000, 1001, 1006}   \* CloseNormalClosure, CloseGoingAway, CloseAbnormalClosure
\* What a read deadline that passes gives, what a dead connection gives, and
\* what a close frame gives.
TimeoutErrors == {NetError("i/o timeout"), NetError("read tcp: i/o timeout")}
GoneErrors    == {CloseError(1006), IoEOF, NetError("use of closed network connection"),
                  NetError("connection reset by peer")}
CloseErrors   == {CloseError(1000), CloseError(1005)}

\* (mutant) Read's handling of an error without its look at the context.
ReadErrorResult_NoCtxCheck(done, err) ==
    IF err.id = "CloseError" THEN "EOF"
    ELSE IF err = IoEOF \/ err.msg = "use of closed network connection" THEN "EOF"
    ELSE IF err.msg = "i/o timeout" THEN "continue"
    ELSE "err"

\* if err != nil { ... }: what Read does with an error of ReadMessage.
ReadErrorResult(done, err) ==
    IF done THEN "EOF"
    ELSE IF err.id = "CloseError" /\ err.code \in ExpectedCodes THEN "EOF"
    ELSE IF err.id = "CloseError" /\ err.code \notin ExpectedCodes THEN "EOF"
    ELSE IF err.id = "CloseError" THEN "continue"
    ELSE IF err = IoEOF \/ err.msg = "use of closed network connection" THEN "EOF"
    ELSE IF err.msg = "i/o timeout" THEN "continue"
    ELSE "err"

\* Skip the first text message if it looks like session info JSON
Skips(f, sessionSent, idx) ==
    f.type = "text" /\ ~sessionSent /\ f.len > 0 /\ f.brace /\ f.len < SkipLimit

Reading(h) == pc[h] = "stream"
Return(what) == [stdin EXCEPT !.st = "idle", !.ret = what]
\* (mutant) the copy without the buffer: what does not fit in p is dropped.
Copied_DropsRest(r, idx, off) ==
    LET rest == peer.sent[idx].len - off
        n    == Min(r.plen, rest) IN
    [r EXCEPT !.out = Append(@, [idx |-> idx, off |-> off, n |-> n]),
              !.buffer = <<>>,
              !.st = "idle", !.ret = "data"]

\* n := copy(p, message[off:]); the rest is buffered
Copied(r, idx, off) ==
    LET rest == peer.sent[idx].len - off
        n    == Min(r.plen, rest) IN
    [r EXCEPT !.out = Append(@, [idx |-> idx, off |-> off, n |-> n]),
              !.buffer = IF n < rest THEN <<idx, off + n>> ELSE <<>>,
              !.st = "idle", !.ret = "data"]
\* The end of Read on an error of ReadMessage.
OnError(h, err, r) ==
    LET what == ReadErrorResult(Done(h), err) IN
    IF what = "continue" THEN [r EXCEPT !.st = "loop"]
    ELSE [r EXCEPT !.st = "idle", !.ret = what]

\* The copier calls Read(p) with a p of one of the sizes, unless a Read has
\* returned an error.
ReadCallOf(h, sizes) ==
    /\ Reading(h) /\ stdin.st = "idle" /\ stdin.ret \notin {"EOF", "err"}
    /\ \E len \in sizes :
         stdin' = [stdin EXCEPT !.st = "top", !.ret = "none", !.after = Done(h),
                                !.conn = FALSE, !.ev = "none", !.plen = len]
    /\ UNCHANGED <<registry, clock, ctxDone, peer, hbt, san, frames, cluster>>
ReadCall(h) == ReadCallOf(h, {BufLen})

\* select { case <-s.ctx.Done(): return 0, io.EOF }; drain any buffered data
ReadTop(h) ==
    /\ Reading(h) /\ stdin.st = "top"
    /\ stdin' = IF Done(h) THEN Return("EOF")
                ELSE IF stdin.buffer # <<>>
                THEN Copied(stdin, stdin.buffer[1], stdin.buffer[2])
                ELSE [stdin EXCEPT !.st = "loop"]
    /\ UNCHANGED <<registry, clock, ctxDone, peer, hbt, san, frames, cluster>>

\* for { select { case <-s.ctx.Done(): return 0, io.EOF }; SetReadDeadline;
\* ReadMessage is called
ReadLoop(h) ==
    /\ Reading(h) /\ stdin.st = "loop"
    /\ stdin' = IF Done(h) THEN Return("EOF")
                ELSE [stdin EXCEPT !.st = "wait", !.conn = TRUE]
    /\ UNCHANGED <<registry, clock, ctxDone, peer, hbt, san, frames, cluster>>

\* ReadMessage returns a frame: it is skipped, or copied to p.
RecvFrame(h) ==
    /\ Reading(h) /\ stdin.st = "wait" /\ stdin.next <= Len(peer.sent)
    /\ LET idx == stdin.next
           r   == [stdin EXCEPT !.next = idx + 1, !.ev = "frame"] IN
       stdin' = IF Skips(peer.sent[idx], stdin.sessionSent, idx)
                THEN [r EXCEPT !.sessionSent = TRUE, !.skipped = @ \cup {idx}, !.st = "loop"]
                ELSE Copied(r, idx, 0)
    /\ UNCHANGED <<registry, clock, ctxDone, peer, hbt, san, frames, cluster>>

\* The read deadline passes with no frame.
RecvTimeout(h) ==
    /\ Reading(h) /\ stdin.st = "wait" /\ stdin.next > Len(peer.sent)
    /\ \E err \in TimeoutErrors : stdin' = OnError(h, err, [stdin EXCEPT !.ev = "timeout"])
    /\ UNCHANGED <<registry, clock, ctxDone, peer, hbt, san, frames, cluster>>

\* The connection of a client that is gone fails.
RecvError(h) ==
    /\ Reading(h) /\ stdin.st = "wait" /\ stdin.next > Len(peer.sent) /\ peer.st = "gone"
    /\ \E err \in GoneErrors : stdin' = OnError(h, err, [stdin EXCEPT !.ev = "error"])
    /\ UNCHANGED <<registry, clock, ctxDone, peer, hbt, san, frames, cluster>>

\* ReadMessage meets the close frame and calls the close handler:
\* UpdatePodHeartbeat(context.Background(), sess.PodName) ...
RecvClose(h) ==
    /\ Reading(h) /\ stdin.st = "wait" /\ stdin.next > Len(peer.sent) /\ peer.st = "closed"
    /\ BeatRead(Reader(h))
    /\ stdin' = [stdin EXCEPT !.st = "beat", !.ev = "close"]
    /\ peer' = [peer EXCEPT !.finalBeat = @ \/ peer.probeFailed]
    /\ UNCHANGED <<registry, clock, ctxDone, san, frames, cluster>>

\* ... cancel(); ReadMessage returns the close error.
CloseBeatOf(h, oks) ==
    /\ stdin.st = "beat"
    /\ BeatPatchOf(Reader(h), BridgePod, oks)
    /\ ctxDone' = ctxDone \cup {h}
    /\ \E err \in CloseErrors : stdin' = [stdin EXCEPT !.st = "idle",
                                                       !.ret = ReadErrorResult(TRUE, err)]
    /\ UNCHANGED <<registry, clock, peer, san, frames, limitsOK, pm, prev>>
CloseBeat(h) == CloseBeatOf(h, BOOLEAN)

\* ---- StreamTerminal's return
Canceled         == [id |-> "context.Canceled", msg |-> "context canceled", wraps |-> <<>>]
DeadlineExceeded == [id |-> "context.DeadlineExceeded", msg |-> "context deadline exceeded",
                     wraps |-> <<>>]
EOF              == [id |-> "io.EOF", msg |-> "EOF", wraps |-> <<>>]
ExitError(code)  == [id |-> "exec.CodeExitError",
                     msg |-> "command terminated with exit code " \o ToString(code),
                     wraps |-> <<>>]
\* fmt.Errorf(text + ": %w", err)
Wrap(text, err)  == [id |-> "*fmt.wrapError", msg |-> text \o ": " \o err.msg, wraps |-> <<err>>]
\* What StreamWithContext may return.
ExecResults ==
    {NoErr, Canceled, DeadlineExceeded, EOF, ExitError(137), ExitError(1),
     Wrap("stream", Canceled), Wrap("stream", EOF),
     [id |-> "io.ErrUnexpectedEOF", msg |-> "unexpected EOF", wraps |-> <<>>]}

\* (mutant) every error but the killed exit is wrapped.
StreamResult_WrapsAll(err) ==
    IF err = NoErr THEN NoErr
    ELSE IF err.msg = "command terminated with exit code 137" THEN EOF
    ELSE Wrap("exec stream error", err)

\* Handle common errors gracefully
StreamResult(err) ==
    IF err = NoErr THEN NoErr
    ELSE IF err.msg = "command terminated with exit code 137" THEN EOF
    ELSE IF err = Canceled \/ err = DeadlineExceeded THEN err
    ELSE IF err = EOF THEN err
    ELSE Wrap("exec stream error", err)

\* StreamWithContext returns, StreamTerminal returns what it makes of the
\* error, and the handler's deferred cancel() runs.
BrStreamEndOf(h, results) ==
    /\ pc[h] = "stream"
    /\ \E err \in results :
         /\ err = Canceled => Done(h)
         /\ stdin' = [stdin EXCEPT !.exec = err, !.result = StreamResult(err), !.ended = TRUE]
         /\ loc' = [loc EXCEPT ![h].how = IF StreamResult(err) = NoErr THEN "streamend"
                                          ELSE "streamerr"]
    /\ pc' = At(h, "unlock")
    /\ ctxDone' = ctxDone \cup {h}
    /\ UNCHANGED <<registry, clock, peer, hbt, san, call, rv, sw, cluster>>


\* ---- the specifications of the bridge
\* The handler of the connections, up to the stream and after it; results
\* are the errors StreamWithContext is let return.
BridgeHandler(h, results) ==
    \/ HwsStartOf(h, SessionIds \cup {NoId}, MaxNew, BrConnect(h))
    \/ CpDelete(h)
    \/ CpCreate(h)
    \/ CpPollReady(h)
    \/ CpPollFail(h)
    \/ CpCleanup(h)
    \/ HwsCreated(h)
    \/ HwsTryLock(h)
    \/ HwsSetActive(h)
    \/ HwsGetPodOf(h, Cancel(h))
    \/ BrStreamEndOf(h, results)
    \/ HwsUnlock(h)
    \/ HwsDeactivate(h)

\* Read, but for the frames.
BridgeReaderOf(h, sizes) ==
    \/ ReadCallOf(h, sizes)
    \/ ReadTop(h)
    \/ ReadLoop(h)
    \/ RecvTimeout(h)
    \/ RecvError(h)
    \/ RecvClose(h)
    \/ CloseBeat(h)
BridgeReader(h) == BridgeReaderOf(h, {BufLen})

\* A connection whose client sends no data: the heartbeats and the ways the
\* connection ends.
NextBridge ==
    \/ Tick
    \/ KubeletStart
    \/ KubeletReady
    \/ PodGone
    \/ BridgeHandler(BridgeH, ExecResults)
    \/ BridgeReader(BridgeH)
    \/ ClientClose(BridgeH)
    \/ ClientVanish(BridgeH)
    \/ PingFail(BridgeH)
    \/ PingDone(BridgeH)
    \/ HbRead(BridgeH)
    \/ HbDone(BridgeH)

SpecBridge == InitProgram /\ [][NextBridge]_vars

\* A connection whose client sends data, between heartbeat ticks and with
\* the clock standing: the stream ends with no error, with the context's, or
\* with the killed exit.
NextStdin ==
    \/ KubeletStart
    \/ KubeletReady
    \/ PodGone
    \/ BridgeHandler(BridgeH, {NoErr, Canceled, ExitError(137)})
    \/ BridgeReader(BridgeH)
    \/ RecvFrame(BridgeH)
    \/ ClientSend(BridgeH)
    \/ ClientClose(BridgeH)
    \/ ClientVanish(BridgeH)
    \/ PingFail(BridgeH)
    \/ PingDone(BridgeH)

SpecStdin == InitProgram /\ [][NextStdin]_vars

\* A connection whose client sends short frames to a copier that reads with
\* buffers of several sizes, smaller and larger than the frames.
MaxBuf == 3            \* the largest len(p) of these Reads
BufSizes == {1, MaxBuf}
CopyFrames == {DataFrame("text", FALSE, 3), DataFrame("text", TRUE, 2),
               DataFrame("binary", TRUE, 2), DataFrame("binary", FALSE, 0)}
NextCopy ==
    \/ KubeletStart
    \/ KubeletReady
    \/ PodGone
    \/ BridgeHandler(BridgeH, {NoErr, Canceled})
    \/ BridgeReaderOf(BridgeH, BufSizes)
    \/ RecvFrame(BridgeH)
    \/ ClientSendOf(BridgeH, CopyFrames)
    \/ ClientClose(BridgeH)
    \/ ClientVanish(BridgeH)
    \/ PingFail(BridgeH)
    \/ PingDone(BridgeH)

SpecCopy == InitProgram /\ [][NextCopy]_vars

\* ---- the heartbeats in time, and the Reaper
HbPeriod    == 1       \* the period of heartbeatTicker
ReapTimeout == 2       \* the staleness timeout of the Reaper
MaxBeatTime == 3       \* readings of time.Now() where the heartbeats are timed

\* heartbeatTicker := time.NewTicker(period), when the ping goroutine starts.
HbArm(h) ==
    /\ Pinging(h) /\ peer.due = NoBeat
    /\ peer' = [peer EXCEPT !.due = now + HbPeriod]
    /\ UNCHANGED <<registry, clock, ctxDone, stdin, hbt, san, frames, cluster>>

\* The ping goroutine of h has its ticker to make, or a tick of it to take.
HbPending(h) ==
    /\ BridgeUp(h) /\ peer.pinger = "run" /\ ~Done(h)
    /\ peer.due = NoBeat \/ now >= peer.due \/ hbt[Pinger(h)] # NoBeat

\* time.Now() moves on, once the goroutines that are due have run: the
\* ticker is made as the goroutine starts and no tick of it is taken late.
BeatTick(h) ==
    /\ now < MaxBeatTime /\ ~HbPending(h) /\ stdin.st # "beat"
    /\ now' = now + 1
    /\ UNCHANGED <<registry, timeout, bridge, san, frames, cluster>>

\* reap(timeout) on one pod: a pod that is not terminating and whose
\* heartbeat is older than the timeout is deleted.  (A pod with no heartbeat
\* is judged by its creation time, which is not kept here: it is left.)
Reap(limit) ==
    /\ \E name \in DOMAIN pods :
         /\ ~pods[name].term /\ pods[name].hb # NoBeat
         /\ now - pods[name].hb > limit
         /\ pods' = ClusterDelete(name)
    /\ UNCHANGED <<registry, clock, bridge, san, frames, limitsOK, pm, prev>>

\* Connections of one user, one after another, whose heartbeats are taken on
\* time and succeed, and the Reaper.
NextBeat ==
    \/ BeatTick(BridgeH)
    \/ KubeletStart
    \/ KubeletReady
    \/ PodGone
    \/ BridgeHandler(BridgeH, {NoErr, Canceled})
    \/ ReadCall(BridgeH)
    \/ ReadTop(BridgeH)
    \/ ReadLoop(BridgeH)
    \/ RecvTimeout(BridgeH)
    \/ RecvError(BridgeH)
    \/ RecvClose(BridgeH)
    \/ CloseBeatOf(BridgeH, {TRUE})
    \/ ClientClose(BridgeH)
    \/ ClientVanish(BridgeH)
    \/ PingFail(BridgeH)
    \/ PingDone(BridgeH)
    \/ HbArm(BridgeH)
    \/ HbReadOf(BridgeH, peer.due # NoBeat /\ now >= peer.due, peer.due + HbPeriod)
    \/ HbDoneOf(BridgeH, {TRUE})
    \/ Reap(ReapTimeout)

SpecBeat == InitProgram /\ [][NextBeat]_vars

\* ======================================================== the properties

InTryLock(p) == call[p].op = "TryLockExec" /\ call[p].st = "exit"

\* C2: of the TryLockExec calls made on a session since its exec lock was last
\* free, exactly one returns true; a call that is inside TryLockExec returns
\* whoever holds the exec lock (it never waits for the holder); and on an id
\* that is not in the registry it returns false.
C2_TryLockExactlyOne ==
    /\ \A id \in SessionIds :
          /\ hist[id].won <= 1
          /\ hist[id].tried => hist[id].won = 1
    /\ \A p \in Procs : InTryLock(p) =>
          /\ ENABLED RegExit(p)
          /\ ~call[p].e => ~TryLockResult(call[p].e, call[p].b)

\* One call has won and another call on the same session is about to lose.
C2_Witness ==
    \E p \in Procs : /\ InTryLock(p) /\ call[p].e /\ call[p].b
                      /\ hist[call[p].id].won = 1
                      /\ ~TryLockResult(call[p].e, call[p].b)

\* C3: the first TryLockExec on an existing session after UnlockExec or
\* SetActive(id, false) returns true.
C3_LockAfterRelease ==
    \A p \in Procs :
        (InTryLock(p) /\ call[p].e /\ hist[call[p].id].lastLock = "released")
            => TryLockResult(call[p].e, call[p].b)

\* A TryLockExec is about to return true after a release of a lock that was held.
C3_Witness ==
    \E p \in Procs : /\ InTryLock(p) /\ call[p].e
                      /\ hist[call[p].id].lastLock = "released"
                      /\ hist[call[p].id].held
                      /\ TryLockResult(call[p].e, call[p].b)

Sweeping(p) == pc[p] = "sweep_loop"
SweepOver(p) == Sweeping(p) /\ sw[p].todo = {}

\* C5: no step of CleanupStaleSessions removes a session whose Active flag is
\* set when the step is taken.
C5_SweepSparesActive ==
    [][\A id \in DOMAIN sessions :
          (sessions[id].Active /\ id \notin DOMAIN sessions')
              => \A p \in Procs : ~(Sweeping(p) /\ sw'[p] # sw[p])]_vars

\* A sweep is over that removed a session and met an active session that was
\* idle for longer than the timeout and that the predicate would have let go.
C5_Witness ==
    \E p \in Procs :
        /\ SweepOver(p) /\ sw[p].deleted # <<>>
        /\ \E id \in DOMAIN sessions :
              /\ sessions[id].Active
              /\ sw[p].nowS - sessions[id].LastUsed > timeout
              /\ (sw[p].pred = "nil" \/ id \in sw[p].fn)

\* What a sweep has to remove, given the map it found.
SweepExpected(f) ==
    {id \in DOMAIN f.snap :
        /\ ~f.snap[id].Active
        /\ f.nowS - f.snap[id].LastUsed > timeout
        /\ (f.pred = "nil" \/ id \in f.fn)}

\* C6: when the loop of CleanupStaleSessions is over, the deleted slice holds,
\* once each, exactly the ids that were inactive, idle for longer than the
\* timeout and accepted by the predicate, and every other session is in the
\* map as it was.
C6_SweepExact ==
    \A p \in Procs :
        (SweepOver(p) /\ sw[p].pred # "cleaner") =>
            LET f == sw[p] exp == SweepExpected(f) IN
            /\ Range(f.deleted) = exp
            /\ Len(f.deleted) = Cardinality(exp)
            /\ sessions = [id \in DOMAIN f.snap \ exp |-> f.snap[id]]

\* A sweep is over that removed a session and kept an inactive, idle one for
\* which the predicate answered false.
C6_Witness ==
    \E p \in Procs :
        /\ SweepOver(p) /\ sw[p].deleted # <<>> /\ sw[p].pred = "pure"
        /\ \E id \in DOMAIN sessions :
              /\ ~sessions[id].Active
              /\ sw[p].nowS - sessions[id].LastUsed > timeout
              /\ id \notin sw[p].fn

\* C10: a call of CreatePodWithStatus that a goroutine makes right after a
\* call of its own that returned a pod, for a username that sanitizes to the
\* same string, with no call of any goroutine in between and no fault of the
\* cluster API, returns the pod of the same name; the session ids of the two
\* calls do not matter.
C10_SameNameTwice ==
    \A p \in Procs :
        ( /\ pm[p].st = "ret" /\ prev[p].ok
          /\ sanitizeUsername(pm[p].user) = sanitizeUsername(prev[p].user)
          /\ pm[p].err \notin {"create", "ready"} )
        => (pm[p].err = "none" /\ pm[p].name = prev[p].name)

\* The connection handlers that are between their own successful TryLockExec
\* on session id and their own UnlockExec.
Attached(id) ==
    {h \in Handlers : loc[h].sid = id /\ pc[h] \in {"locked", "getpod", "stream", "unlock"}}

\* C1: on every session, at most one connection handler at a time is between
\* its successful TryLockExec and its UnlockExec.
C1_OneHandlerAttached ==
    \A id \in SessionIds : Cardinality(Attached(id)) <= 1

\* The connection handlers that are running on session id.
Running(id) == {h \in Handlers : loc[h].sid = id /\ pc[h] # "idle"}

\* C4: a session that is in the registry while no connection handler is
\* running on it has ExecLock = false and Active = false.
C4_NeverLeftLocked ==
    \A id \in DOMAIN sessions :
        Running(id) = {} => (~sessions[id].ExecLock /\ ~sessions[id].Active)

\* A session is in the registry, no handler is running on it, and a handler
\* has returned from it because the pod was not found and another because the
\* stream ended with an error.
C4_Witness ==
    \E id \in DOMAIN sessions :
        /\ Running(id) = {}
        /\ \E h \in Handlers : loc[h].how = "podmissing"
        /\ \E h \in Handlers : loc[h].how = "streamerr"

\* Goroutine p is at a call of the cluster API.
AtClusterCall(p) ==
    \/ pm[p].st \in {"delete", "create", "wait", "cleanup"}
    \/ pc[p] \in {"getpod", "del_pod", "pred_del"}

C8_LastUsedNeverDecreases ==
    [][\A id \in DOMAIN sessions \cap DOMAIN sessions' :
          sessions'[id].LastUsed >= sessions[id].LastUsed]_vars

\* C9: a step that changes a field of a session in the map is taken while
\* m.mu is held on its write side.
C9_WritesUnderWriteLock ==
    [][\A id \in DOMAIN sessions \cap DOMAIN sessions' :
          sessions'[id] # sessions[id] => mu.w # NoOne]_vars

\* ------------------------------------------------------------------ C11
\* A pod that could be reused: Running, Ready and not marked for deletion.
Reusable(name) == PodExists(name) /\ PodIsReady(pods[name]) /\ ~pods[name].term

\* C11: a call of CreatePodWithStatus that finds a pod of its name Running,
\* Ready and not terminating issues no delete (and no create): it never goes
\* on to the deletion of the pod it found.
C11_ReusesReadySandbox ==
    [][\A p \in Procs :
         (pm[p].st # "delete" /\ pm'[p].st = "delete") => ~Reusable(pm'[p].name)]_vars

\* ------------------------------------------------------------------ C12
\* C12: a call of CreatePodWithStatus that found a pod of its name and deleted
\* it issues Create only when the pod is absent: no Create is sent while a pod
\* of that name, terminating or not, is still in the cluster.
C12_CreateAfterAbsent ==
    [][\A p \in Procs :
         (pm[p].st = "create" /\ pm[p].found /\ limitsOK /\ pm'[p].st # "create")
         => ~PodExists(pm[p].name)]_vars

\* ------------------------------------------------------------------ C13
\* The pods of an owner that are not marked for deletion.
SandboxesOf(owner) ==
    {n \in DOMAIN pods : pods[n].user = PodUsername(owner) /\ ~pods[n].term}

\* C13: in every reachable state of the cluster, under any interleaving of
\* CreatePodWithStatus and DeletePod calls, every owner has at most one pod
\* that is not terminating.
C13_OneSandboxPerOwner ==
    \A owner \in PodUsers : Cardinality(SandboxesOf(owner)) <= 1

\* Two calls for one owner, with different session ids, both past their
\* Create, and the owner has a pod that is not terminating.
C13_Witness ==
    \E p, q \in Procs :
        /\ p # q /\ pm[p].st = "wait" /\ pm[q].st = "wait"
        /\ pm[p].sid # pm[q].sid
        /\ PodUsername(pm[p].user) = PodUsername(pm[q].user)
        /\ SandboxesOf(pm[p].user) # {}

\* ------------------------------------------------------------------ C14
\* The call of goroutine q created the pod of name n, and still waits for it
\* or has returned it.
HoldsSandbox(q, n) ==
    /\ pm[q].name = n /\ PodExists(n) /\ pods[n].by = q
    /\ (pm[q].st = "wait" \/ (pm[q].st = "ret" /\ pm[q].err = "none"))

\* C14: concurrent calls of CreatePodWithStatus for one owner converge on one
\* pod: a call that returns a pod returns one that exists, its own, and the
\* Delete a call issues for the pod it found (lines 455-457) or for the pod that
\* did not become ready (line 565) never hits a pod another call created and
\* still waits for or has returned.
C14_CallsConverge ==
    [][\A p \in Procs :
         /\ (pm[p].st = "wait" /\ pm'[p].st = "ret")
            => (PodExists(pm[p].name) /\ pods[pm[p].name].by = p)
         /\ (pm[p].st \in {"delete", "cleanup"} /\ pm'[p].st # pm[p].st)
            => \A q \in Procs \ {p} :
                 HoldsSandbox(q, pm[p].name) => pods'[pm[p].name] = pods[pm[p].name]]_vars

\* ------------------------------------------------------------------ C15
\* C15: when the pod does not become Ready within waitForPodReady's wait,
\* CreatePodWithStatus returns an error, and at its return the owner has no
\* pod left in the cluster (a pod already marked for deletion and on its way
\* out is not counted).
C15_NoSandboxAfterTimeout ==
    [][\A p \in Procs :
         (pm[p].st = "cleanup" /\ pm'[p].st = "ret")
         => /\ pm'[p].err # "none"
            /\ ~(pm[p].name \in DOMAIN pods' /\ ~pods'[pm[p].name].term)]_vars

\* ------------------------------------------------------------------ C16
\* The pods a call of goroutine p has created, once it is past its Create.
CreatedByCall(p, ps) ==
    IF pm[p].st \in {"wait", "cleanup"}
    THEN {n \in DOMAIN ps : n = pm[p].name /\ ps[n].by = p /\ ~ps[n].term}
    ELSE {}

\* C16: on every failure return of CreatePodWithStatus (Create rejected, a
\* poll failed, the wait timed out, the context was cancelled) no pod that
\* the call created is left in the cluster (a pod already marked for deletion
\* is not counted).
C16_NothingLeftOnFailure ==
    [][\A p \in Procs :
         (pm[p].st \notin {"none", "ret"} /\ pm'[p].st = "ret" /\ pm'[p].err # "none")
         => CreatedByCall(p, pods') = {}]_vars

\* ------------------------------------------------------------------ C17
\* C17: when the configured limits do not parse, a call of CreatePodWithStatus
\* returns the configuration error and leaves the cluster as it is: no step
\* of the call creates a pod or deletes the owner's existing pod.
C17_ConfigErrorNoEffect ==
    [][\A p \in Procs :
         (~limitsOK /\ pm[p].st \in {"delete", "create"} /\ pm'[p].st # pm[p].st)
         => /\ pods' = pods
            /\ pm'[p].st = "ret" => pm'[p].err = "config"]_vars

\* ------------------------------------------------------------------ C18
\* C18: CreatePodWithStatus fails closed on storage: every pod it has created
\* mounts the owner's durable volume, so none is created without one.
C18_SandboxHasVolume ==
    \A n \in DOMAIN pods : pods[n].by # NoOne => pods[n].volumes # {}

\* ------------------------------------------------------------------ C19
\* C19: DeletePod is idempotent.  After any call of DeletePod by goroutine p:
\* the only error it returns is one of the API other than NotFound; a
\* DeletePod right after a DeletePod of the same name that returned nil
\* returns nil too unless the API fails; and a DeletePod of a name that is
\* absent returns nil, unless the API fails, and leaves the cluster as it is.
C19_DeleteIdempotent ==
    [][\A p \in Procs :
         (pm'[p].st = "del" /\ (pm'[p] # pm[p] \/ prev'[p] # prev[p]))
         => /\ pm'[p].err \in {"none", "error"}
            /\ (prev'[p].ok /\ prev'[p].name = pm'[p].name /\ pm'[p].err # "error")
               => pm'[p].err = "none"
            /\ ~pm'[p].found
               => (pm'[p].err # "error" => pm'[p].err = "none") /\ pods' = pods]_vars

\* A DeletePod right after a DeletePod of the same name that returned nil
\* has found the pod absent and has returned nil.
C19_Witness ==
    \E p \in Procs :
        /\ pm[p].st = "del" /\ prev[p].ok /\ prev[p].name = pm[p].name
        /\ ~pm[p].found /\ pm[p].err = "none"

\* ------------------------------------------------------------------ C20
\* The program with the scheduling Go gives the Cleaner: a goroutine that can
\* run does run.
SpecFair == Spec /\ WF_vars(CleanerStep(CleanerP)) /\ WF_vars(SweepExit(CleanerP))

\* The cleanup cycle has met session id idle for longer than the timeout and
\* not active, and is about to decide on it.
ReapFound(id) == pc[CleanerP] = "pred_get" /\ sw[CleanerP].cur = id

\* The pod of session id is out of service: absent or marked for deletion
\* (or the session itself is gone).
Reaped(id) ==
    Exists(id) => ~(PodExists(sessions[id].PodName) /\ ~pods[sessions[id].PodName].term)

\* C20: a cleanup cycle deletes the pod of every session it finds idle for
\* longer than the timeout, and its Delete hits no pod but that of such a
\* session.
C20_ReapDeletesStale ==
    /\ \A id \in SessionIds : [](ReapFound(id) => <>Reaped(id))
    /\ [][pc[CleanerP] = "pred_del" /\ pods' # pods
          => \A n \in DOMAIN pods : pods'[n] # pods[n] => n = sessions[sw[CleanerP].cur].PodName]_vars

\* ------------------------------------------------------------------ C29
\* s is made of lowercase letters, digits and the characters of extra only,
\* is not empty, has at most 63 characters, and begins and ends with a letter
\* or a digit.
WellFormed(s, extra) ==
    /\ s # <<>> /\ Len(s) <= MaxNameLen
    /\ \A i \in DOMAIN s : isAlphanumeric(s[i]) \/ s[i] \in extra
    /\ isAlphanumeric(s[1]) /\ isAlphanumeric(s[Len(s)])

\* The input has no letter and no digit: it sanitizes to nothing.
SanitizesToNothing(s) == \A i \in DOMAIN s : ~isAlphanumeric(ToLowerCh(s[i]))

\* C29 (as claimed): for every input sanitizeUsername returns a non-empty
\* string of at most 63 characters, of lowercase letters, digits and hyphens
\* only, beginning and ending with a letter or digit; the empty input and
\* any input that sanitizes to nothing give "anonymous".
C29_SanitizedHyphensOnly ==
    san.called =>
        /\ WellFormed(san.res, {"-"})
        /\ SanitizesToNothing(san.arg) => san.res = Anonymous

\* C29 (amended): the same, with dots allowed beside hyphens.
C29_SanitizedShape ==
    san.called =>
        /\ WellFormed(san.res, {"-", "."})
        /\ SanitizesToNothing(san.arg) => san.res = Anonymous

\* An input over the limit, with an uppercase letter in it, cut at 63
\* characters where it had a hyphen or a dot, which became "0".
C29_Witness ==
    /\ san.called /\ Len(san.arg) > MaxNameLen
    /\ \E i \in DOMAIN san.arg : san.arg[i] = "Z"
    /\ san.arg[MaxNameLen] \in {"-", "."} /\ san.res[MaxNameLen] = "0"

\* ------------------------------------------------------------------ C28
\* The steps of HandleDeleteSession, by where the request stands before and
\* after.
DelMoves(from, to) == pc[DeleterP] = from /\ pc'[DeleterP] = to
\* What the claim and its amendment share: for an unknown id nothing is
\* deleted and not-found is the answer; for a session that exists the pod is
\* deleted first and the session removed after; when the deletion fails
\* nothing is deleted and the session stays in the registry.
TeardownSteps ==
    /\ DelMoves("idle", "done") =>
          /\ pods' = pods /\ sessions' = sessions
          /\ loc'[DeleterP].how = "nosession"
    /\ DelMoves("idle", "del_pod") =>
          /\ pods' = pods /\ DOMAIN sessions' = DOMAIN sessions
          /\ loc'[DeleterP].sid \in DOMAIN sessions
    /\ DelMoves("del_pod", "del_sess") =>
          /\ pods' = ClusterDelete(loc[DeleterP].pod) /\ sessions' = sessions
    /\ DelMoves("del_sess", "done") =>
          /\ pods' = pods /\ sessions' = Without(sessions, loc[DeleterP].sid)
          /\ loc'[DeleterP].how = "deleted"
    /\ DelMoves("del_pod", "done") =>
          /\ pods' = pods /\ sessions' = sessions
          /\ loc[DeleterP].sid \in DOMAIN sessions
          /\ loc'[DeleterP].how = "deletefail"

\* C28 (as claimed): teardown of an existing session deletes the sandbox and
\* then removes the session; when the deletion fails the session is left in
\* the registry unchanged by the request; for an unknown id nothing is
\* deleted and not-found is reported.
C28_TeardownLeavesUnchanged ==
    [][/\ TeardownSteps
       /\ DelMoves("del_pod", "done") => ~loc[DeleterP].touched]_vars

\* C28 (amended): the same, but the session left in the registry after a
\* failed deletion may have had its LastUsed refreshed by the request's
\* lookup, and nothing else.
C28_TeardownLeavesSession ==
    [][/\ TeardownSteps
       /\ DelMoves("idle", "del_pod") =>
             \E t \in 0..MaxTime :
                 sessions' = [sessions EXCEPT ![loc'[DeleterP].sid].LastUsed = t]]_vars

\* A teardown whose DeletePod failed, after its lookup had moved LastUsed:
\* the session is still in the registry.
C28_Witness ==
    /\ pc[DeleterP] = "done" /\ loc[DeleterP].how = "deletefail"
    /\ loc[DeleterP].touched /\ loc[DeleterP].sid \in DOMAIN sessions

\* ------------------------------------------------------------------ C30
\* The pods that back a session of the registry.
Backing == {sessions[id].PodName : id \in DOMAIN sessions}

\* C30: each session has its own pod: no two sessions of the registry have
\* the same PodName, and no step of a CreatePodWithStatus call made for a
\* new session deletes or replaces a pod that backs a session.
C30_OwnPod ==
    /\ [](\A i, j \in DOMAIN sessions :
            i # j => sessions[i].PodName # sessions[j].PodName)
    /\ [][\A h \in Handlers :
            pm'[h] # pm[h] =>
                \A n \in Backing \cap DOMAIN pods :
                    n \in DOMAIN pods' /\ pods'[n] = pods[n]]_vars

\* ------------------------------------------------------------------ C21
\* Cleaner c is inside a cleanup cycle.
InCycle(c) == pc[c] \in {"cleanup", "sweep_loop", "pred_get", "pred_del"}

\* C21: cleanup loops run side by side are safe: a cycle of any of them comes
\* to its end whatever the others do or have deleted, every pod a cycle
\* deletes is that of the session it is deciding on, idle for longer than the
\* timeout and not active, and a session goes only with its pod deleted.
C21_LoopsSideBySide ==
    /\ \A c \in Cleaners : [](InCycle(c) => <>~InCycle(c))
    /\ [][\A c \in Cleaners :
            /\ (pc[c] = "pred_del" /\ pods' # pods) =>
                  /\ SweepEligible(sessions[sw[c].cur], sw[c].nowS)
                  /\ \A n \in DOMAIN pods :
                        pods'[n] # pods[n] => n = sessions[sw[c].cur].PodName
            /\ (InCycle(c) /\ sw'[c] # sw[c] /\ sessions' # sessions) =>
                  \A id \in DOMAIN sessions \ DOMAIN sessions' : Reaped(id)]_vars

\* ------------------------------------------------------------------ C22
\* C22: a cleanup cycle starts only at a tick of a loop that has not
\* returned, the loop returns only once its context is cancelled or Stop is
\* called, and after that it does return.
C22_ReturnsAfterCancel ==
    /\ \A c \in Cleaners : [](c \in ctxDone => <>(pc[c] = "returned"))
    /\ [][\A c \in Cleaners :
            /\ (pc'[c] = "returned" /\ pc[c] # "returned") => c \in ctxDone
            /\ (pc'[c] = "cleanup" /\ pc[c] # "cleanup") => pc[c] = "idle"
            /\ pc[c] = "returned" => pc'[c] = "returned"]_vars

\* ------------------------------------------------------------------ C23
\* The connection has ended for a client that vanished: a failed probe
\* cancelled the context, and the handler has returned.
GoneAndReturned ==
    /\ peer.st = "gone" /\ peer.probeFailed
    /\ pc[BridgeH] = "idle" /\ loc[BridgeH].how \in {"streamend", "streamerr"}

\* C23: when the client has vanished and the failed probe has cancelled the
\* context, then by the time the handler has returned UpdatePodHeartbeat has
\* been called once more, the exec lock is released, and the session is in
\* the registry with Active false.
C23_AbnormalDisconnect ==
    GoneAndReturned =>
        /\ peer.finalBeat
        /\ DOMAIN sessions # {}
        /\ \A id \in DOMAIN sessions : ~sessions[id].Active /\ ~sessions[id].ExecLock

\* ------------------------------------------------------------------ C24
\* C24: while a connection is attached to the pod, no step lowers the
\* heartbeat stored on the pod.
C24_HeartbeatNeverDecreases ==
    [][(pc[BridgeH] \in {"getpod", "stream"}
          /\ BridgePod \in DOMAIN pods /\ BridgePod \in DOMAIN pods'
          /\ pods[BridgePod].hb # NoBeat)
       => pods'[BridgePod].hb >= pods[BridgePod].hb]_vars

\* ------------------------------------------------------------------ C25
\* What Read hands on for frame idx from offset off, a buffer at a time.
RECURSIVE ChunksFrom(_, _)
ChunksFrom(idx, off) ==
    LET rest == peer.sent[idx].len - off
        n    == Min(BufLen, rest) IN
    IF rest <= 0 THEN <<>>
    ELSE <<[idx |-> idx, off |-> off, n |-> n]>> \o ChunksFrom(idx, off + n)
\* ... and for the frames from idx on that ReadMessage has returned and Read
\* has not skipped.
RECURSIVE Expected(_)
Expected(idx) ==
    IF idx >= stdin.next THEN <<>>
    ELSE (IF idx \in stdin.skipped THEN <<>> ELSE ChunksFrom(idx, 0)) \o Expected(idx + 1)
\* Read has handed on, in order, every byte of those frames but the ones
\* still in its buffer.
ForwardedInOrder ==
    LET all == Expected(1)
        k   == Len(stdin.out) IN
    /\ k <= Len(all) /\ stdin.out = SubSeq(all, 1, k)
    /\ IF stdin.buffer = <<>> THEN k = Len(all)
       ELSE k < Len(all) /\ <<all[k + 1].idx, all[k + 1].off>> = stdin.buffer

\* C25: every data frame is forwarded, in order, except that on a new
\* session the first frame of the connection is skipped when it is the
\* structured control frame: nothing is skipped on a reconnect, and no frame
\* but the first of the connection is ever skipped.
C25_SkipsOnlyLeadingFrame ==
    pc[BridgeH] \in {"stream", "unlock", "deactivate"} =>
        /\ ForwardedInOrder
        /\ stdin.skipped \subseteq {1}
        /\ loc[BridgeH].reconnect => stdin.skipped = {}
        /\ \A i \in stdin.skipped : peer.sent[i].type = "text" /\ peer.sent[i].brace

\* ------------------------------------------------------------------ C26
\* A Read that began with the context cancelled has not called ReadMessage
\* and, once it has returned, has returned io.EOF.
ReadAfterCancel ==
    stdin.after =>
        /\ ~stdin.conn /\ stdin.st \in {"top", "idle"}
        /\ stdin.st = "idle" => stdin.ret = "EOF"
\* A Read is in progress that began before the context was cancelled.
Caught == Reading(BridgeH) /\ stdin.st # "idle" /\ Done(BridgeH) /\ ~stdin.after
\* Such a Read returns when its read deadline passes, if not before.
ReturnsAtDeadline ==
    (Caught /\ stdin.st = "wait" /\ stdin'.st # "wait" /\ stdin'.ev = "timeout")
        => stdin'.st = "idle"

\* C26 (as claimed): a Read that starts after the cancellation returns io.EOF
\* without reading from the connection, buffered bytes or not; a Read in
\* progress at the cancellation returns when its deadline passes at the
\* latest, and what it returns is io.EOF.
C26_ReadsEndAfterCancel ==
    /\ []ReadAfterCancel
    /\ [][/\ ReturnsAtDeadline
          /\ (Caught /\ stdin'.st = "idle") => stdin'.ret = "EOF"]_vars

\* C26 (amended): the same, but the Read in progress returns the frame that
\* ReadMessage gives it before the deadline, if one does.
C26_ReadsEndOrDeliver ==
    /\ []ReadAfterCancel
    /\ [][/\ ReturnsAtDeadline
          /\ (Caught /\ stdin'.st = "idle") =>
                \/ stdin'.ret = "EOF"
                \/ /\ stdin'.ret = "data" /\ stdin.st = "wait"
                   /\ stdin'.ev = "frame" /\ stdin'.next = stdin.next + 1]_vars

\* A Read that began after the cancellation, with bytes in the buffer, has
\* returned io.EOF and left them there.
C26_Witness ==
    /\ stdin.after /\ stdin.buffer # <<>>
    /\ stdin.st = "idle" /\ stdin.ret = "EOF"

\* ------------------------------------------------------------------ C27
\* C27: StreamTerminal returns nil for no error, io.EOF for the killed exit
\* (exit code 137), the error itself for context.Canceled,
\* context.DeadlineExceeded and io.EOF, and for any other error an error that
\* wraps it.
C27_StreamTerminalResult ==
    stdin.ended =>
        LET err    == stdin.exec
            res    == stdin.result
            killed == err.msg = "command terminated with exit code 137" IN
        /\ err = NoErr => res = NoErr
        /\ killed => res = EOF
        /\ err \in {Canceled, DeadlineExceeded, EOF} => res = err
        /\ (err # NoErr /\ ~killed /\ err \notin {Canceled, DeadlineExceeded, EOF})
             => res # err /\ res.wraps = <<err>>

\* StreamTerminal has returned io.EOF for the killed exit.
C27_Witness ==
    stdin.ended /\ stdin.exec = ExitError(137) /\ stdin.result = EOF

\* ---------------------------------------------------------------- C40
\* C40: for every owner string, the pod name CreatePodWithStatus derives
\* ("kubrowser-" plus the sanitized owner, truncated when too long) is at
\* most 63 characters long and ends with a lowercase letter or digit.
C40_PodNameShape ==
    san.called =>
        /\ Len(san.res) <= MaxNameLen
        /\ isAlphanumeric(san.res[Len(san.res)])


\* ---------------------------------------------------------------- C39
\* The bytes of frame idx from offset off up to offset to, each named by its
\* frame and its place in it.
Payload(idx, off, to) == [i \in 1..(to - off) |-> <<idx, off + i>>]
\* The bytes the Reads have returned, in the order they returned them.
RECURSIVE BytesOut(_)
BytesOut(chunks) ==
    IF chunks = <<>> THEN <<>>
    ELSE Payload(Head(chunks).idx, Head(chunks).off, Head(chunks).off + Head(chunks).n)
         \o BytesOut(Tail(chunks))
\* The bytes Read holds in its buffer.
Buffered ==
    IF stdin.buffer = <<>> THEN <<>>
    ELSE Payload(stdin.buffer[1], stdin.buffer[2], peer.sent[stdin.buffer[1]].len)
\* The payloads, in arrival order, of the frames from idx on that ReadMessage
\* has returned and Read has not skipped.
RECURSIVE Payloads(_)
Payloads(idx) ==
    IF idx >= stdin.next THEN <<>>
    ELSE (IF idx \in stdin.skipped THEN <<>> ELSE Payload(idx, 0, peer.sent[idx].len))
         \o Payloads(idx + 1)

\* C39: for every sequence of data frames and of read buffer sizes, the
\* bytes successive Reads return, followed by the bytes Read still buffers,
\* are the concatenation of the payloads of the non-skipped frames in arrival
\* order: no byte is lost, duplicated or reordered.
C39_BytesInOrder ==
    pc[BridgeH] \in {"stream", "unlock", "deactivate"} =>
        BytesOut(stdin.out) \o Buffered = Payloads(1)

\* A frame went through in two Reads with buffers of different sizes, and a
\* later frame after it.
C39_Witness ==
    /\ pc[BridgeH] = "stream" /\ stdin.buffer = <<>>
    /\ \E i \in 1..(Len(stdin.out) - 2) :
         /\ stdin.out[i].idx = stdin.out[i + 1].idx
         /\ stdin.out[i].n # stdin.out[i + 1].n /\ stdin.out[i + 1].n > 0
         /\ stdin.out[i + 2].idx > stdin.out[i].idx /\ stdin.out[i + 2].n > 0


\* ---------------------------------------------------------------- C35
\* C35: with a staleness timeout longer than the heartbeat period and
\* heartbeat updates that succeed, the Reaper never deletes a pod while a
\* bridge is attached to it, a bridge attached by a reconnect shortly before
\* the old heartbeat becomes stale included.
C35_NoReapWhileAttached ==
    [][(/\ pc[BridgeH] = "stream" /\ ~Done(BridgeH) /\ peer.st = "up"
        /\ BridgePod \in DOMAIN pods /\ ~pods[BridgePod].term)
       => (BridgePod \in DOMAIN pods' /\ ~pods'[BridgePod].term)]_vars


\* ---------------------------------------------------------------- C32
\* C32: every cleanup cycle terminates: CleanupStaleSessions called with the
\* Cleaner's predicate returns and releases m.mu, whatever the registry
\* holds, so that the registry is not locked for ever.
C32_CycleTerminates ==
    \A c \in Cleaners : [](mu.w = c => <>(mu.w # c /\ pc[c] \in {"idle", "returned"}))

\* ---------------------------------------------------------------- C31
\* The program with time that moves on and a Cleaner whose ticker ticks: the
\* cleanup loop keeps being scheduled.
SpecClean == SpecFair /\ WF_vars(Tick) /\ WF_vars(CleanerTick(CleanerP))

\* No connection is being served.
Unattached == \A h \in Handlers : pc[h] = "idle"
\* Session id has no connection and has been idle for longer than the timeout.
Abandoned(id) ==
    /\ Exists(id) /\ ~sessions[id].Active
    /\ now - sessions[id].LastUsed > timeout
    /\ Unattached

\* C31: with a cleanup loop that keeps being scheduled, the pod of a session
\* that has no connection attached, and gets none any more, is deleted in the
\* end.
C31_PodsCleanedUp ==
    \A id \in SessionIds : [](Abandoned(id) => <>(Reaped(id) \/ ~Unattached))


\* ---------------------------------------------------------------- C33
\* C33: the exec lock prevents multiple execs to the same pod: at most one
\* exec stream is attached to any one pod at a time.
C33_OneStreamPerPod ==
    \A h1, h2 \in Handlers :
        (h1 # h2 /\ pc[h1] = "stream" /\ pc[h2] = "stream") => loc[h1].pod # loc[h2].pod


\* ---------------------------------------------------------------- C38
\* C38: an exec stream is opened only by a handler that holds the exec lock
\* of its session and has read the pod after taking the lock and found it
\* Running; a handler that finds the pod missing or not Running returns with
\* an error and opens no stream.
C38_StreamOnlyLockedAndRunning ==
    [][\A h \in Handlers :
         /\ (pc'[h] = "stream" /\ pc[h] # "stream") =>
               /\ pc[h] = "getpod"
               /\ PodExists(loc[h].pod) /\ pods[loc[h].pod].phase = "Running"
               /\ Exists(loc[h].sid) => sessions[loc[h].sid].ExecLock
         /\ (/\ pc[h] = "getpod" /\ pc'[h] # "getpod"
             /\ ~(PodExists(loc[h].pod) /\ pods[loc[h].pod].phase = "Running")) =>
               pc'[h] = "unlock" /\ loc'[h].how \in {"podmissing", "notrunning"}]_vars


\* ---------------------------------------------------------------- C36
\* Handler h is at TryLockExec on a session that exists and is locked.
FindsLocked(h) ==
    pc[h] = "lock" /\ Exists(loc[h].sid) /\ sessions[loc[h].sid].ExecLock

\* C36: a connection rejected because the exec lock of its session is held
\* leaves the session as it is, ExecLock and Active as the attached
\* connection set them; the attached connection goes on streaming; and the
\* rejected handler returns without calling UnlockExec or SetActive.
C36_RejectedChangesNothing ==
    [][\A h \in Handlers :
         (FindsLocked(h) /\ pc'[h] # pc[h]) =>
            /\ pc'[h] = "idle" /\ loc'[h].how = "rejected"
            /\ sessions' = sessions
            /\ \A q \in Handlers \ {h} : pc'[q] = pc[q]]_vars

\* A handler has been rejected and has returned; the connection that holds
\* the lock is streaming, its session locked and active.  (The session is
\* the only one ever made, so it is the one the rejected handler asked for.)
C36_Witness ==
    \E h, q \in Handlers :
        /\ pc[h] = "idle" /\ loc[h].how = "rejected"
        /\ issued = 1
        /\ pc[q] = "stream" /\ Exists(loc[q].sid)
        /\ sessions[loc[q].sid].ExecLock /\ sessions[loc[q].sid].Active


\* ---------------------------------------------------------------- C37
\* CreatePodWithStatus of handler h returns without an error in this step.
CpSucceeds(h) == pm[h].st # "ret" /\ pm'[h].st = "ret" /\ pm'[h].err = "none"
\* Handler h leaves CreatePodWithStatus, which has failed, in this step.
CpFailed(h) == pc[h] = "cp" /\ pm[h].st = "ret" /\ pm[h].err # "none" /\ pc'[h] # "cp"
\* Handler h is told "Session not found" in this step.
NotFound(h) == loc'[h].how = "nosession" /\ loc'[h] # loc[h]

\* C37: a session enters the registry only in the step of a handler whose
\* CreatePodWithStatus has returned without error, and that happens only
\* when a poll has seen the pod Running and Ready; a handler whose pod
\* creation failed, and a reconnect with an unknown session id, leave the
\* registry unchanged and return: they take no exec lock and open no stream.
C37_SessionOnlyAfterReady ==
    [][/\ \A id \in SessionIds :
            (~Exists(id) /\ id \in DOMAIN sessions') =>
               \E h \in Handlers :
                  /\ pc[h] = "cp" /\ pm[h].st = "ret" /\ pm[h].err = "none"
                  /\ sessions'[id].PodName = pm[h].name
                  /\ loc'[h].sid = id
       /\ \A h \in Handlers :
            /\ CpSucceeds(h) =>
                  /\ pm[h].st = "wait"
                  /\ PodExists(pm[h].name) /\ PodIsReady(pods[pm[h].name])
            /\ (CpFailed(h) \/ NotFound(h)) =>
                  /\ sessions' = sessions /\ issued' = issued
                  /\ pc'[h] = "idle"]_vars

\* One request was given a session, one was told that its pod could not be
\* created, and one that its session was not found.
C37_Witness ==
    /\ issued >= 1
    /\ \E h \in Handlers : loc[h].how = "createfail"
    /\ \E h \in Handlers : loc[h].how = "nosession"


\* ---------------------------------------------------------------- C34
\* Cleaner c takes a step of its cleanup cycle.
CleanerMoves(c) == InCycle(c) /\ (pc'[c] # pc[c] \/ sw'[c] # sw[c])

====
